---- MODULE Spec2Model ----
(***************************************************************************)
(* A model of the fixture aggregation and enrichment pipeline of           *)
(* What2Watch: Top5LeaguesService, FootballAPI, PremierLeagueAPI and the   *)
(* cache they share (backend/apps/content/services).                       *)
(*                                                                         *)
(* Encoding of JSON values.  An optional integer field of an upstream      *)
(* payload is an integer: Missing (the key is absent), Null (the key       *)
(* holds JSON null) or the value itself.  Python's None is PyNone.         *)
(* A kickoff string is an integer code whose order is the lexicographic    *)
(* order of the strings: EmptyStr is '', StampCode(d, s) is the zero       *)
(* padded ISO timestamp of slot s of day d, GarbageStr is a string that    *)
(* is no timestamp ("TBD", which sorts after every digit).                 *)
(***************************************************************************)
EXTENDS Integers, Sequences, FiniteSets, TLC

VARIABLES cache, now, feed, last, calls, ticks, procs, heap, db

vars == <<cache, now, feed, last, calls, ticks, procs, heap, db>>

\* what the services of content/services never touch: the calls in flight of
\* the concurrent model, the list objects handed to callers, the database
others == <<procs, heap, db>>

OthersIdle == procs = <<>> /\ heap = <<>> /\ db = <<>>

---------------------------------------------------------------------------
(* Bounds of the model *)

\* calls of service operations in one behaviour
MaxCalls == 2
\* clock advances in one behaviour
MaxTicks == 2
\* largest days_ahead a caller passes
MaxDaysAhead == 2

---------------------------------------------------------------------------
(* JSON encoding *)

Missing == 0 - 3
NonStr == 0 - 2
Null == 0 - 1
PyNone == 0 - 1
EmptyStr == 0

SlotsPerDay == 3
LastDay == MaxDaysAhead + 1
StampCode(d, s) == 1 + d * SlotsPerDay + s
GarbageStr == StampCode(LastDay, SlotsPerDay)

IsStamp(c) == c >= 1 /\ c < GarbageStr
StampDay(c) == (c - 1) \div SlotsPerDay
StampSlot(c) == (c - 1) % SlotsPerDay

---------------------------------------------------------------------------
(* Static tables *)

LeagueKeys == {"premier_league", "la_liga", "bundesliga", "serie_a", "ligue_1"}

LEAGUE_IDS ==
    [k \in LeagueKeys |->
        CASE k = "premier_league" -> 39
          [] k = "la_liga" -> 140
          [] k = "bundesliga" -> 78
          [] k = "serie_a" -> 135
          [] k = "ligue_1" -> 61]

\* list(self.LEAGUE_IDS.values()): the dict's insertion order
LeagueIdList == <<39, 140, 78, 135, 61>>

LeagueIdSet == {LeagueIdList[i] : i \in 1..Len(LeagueIdList)}

LEAGUE_NAMES ==
    [i \in LeagueIdSet |->
        CASE i = 39 -> [name |-> "Premier League", country |-> "England"]
          [] i = 140 -> [name |-> "La Liga", country |-> "Spain"]
          [] i = 78 -> [name |-> "Bundesliga", country |-> "Germany"]
          [] i = 135 -> [name |-> "Serie A", country |-> "Italy"]
          [] i = 61 -> [name |-> "Ligue 1", country |-> "France"]]

UNAVAILABLE_MESSAGE == "Broadcast info unavailable"

BROADCAST_MAPPINGS ==
    [i \in LeagueIdSet |->
        CASE i = 39 -> <<"Sky Sports", "TNT Sports", "NOW TV">>
          [] i = 140 -> <<"Premier Sports", "LaLigaTV">>
          [] i = 78 -> <<"Sky Sports", "TNT Sports">>
          [] i = 135 -> <<"TNT Sports", "BT Sport">>
          [] i = 61 -> <<"TNT Sports", "beIN Sports">>]

\* get_broadcast_channels without the fallback of line 45
get_broadcast_channels_nofallback(league_id) ==
    IF league_id \in DOMAIN BROADCAST_MAPPINGS
    THEN BROADCAST_MAPPINGS[league_id]
    ELSE <<>>

get_broadcast_channels(league_id) ==
    IF league_id \in DOMAIN BROADCAST_MAPPINGS /\ Len(BROADCAST_MAPPINGS[league_id]) > 0
    THEN BROADCAST_MAPPINGS[league_id]
    ELSE <<UNAVAILABLE_MESSAGE>>

---------------------------------------------------------------------------
(* The clock.  now counts seconds from the start of the behaviour, which   *)
(* is 23:59:30 on 31 July of StartYear: the midnight that follows starts   *)
(* a new day, a new month and a new football season.                       *)

StartYear == 2025
StartSecond == 86370
DaySeconds == 86400

\* datetime.now() as (year, month, day ordinal counted from the start day)
NowDay(t) == (StartSecond + t) \div DaySeconds
NowMonth(t) == IF NowDay(t) = 0 THEN 7 ELSE 8
NowYear(t) == StartYear

SeasonOf(year, month) == IF month < 8 THEN year - 1 ELSE year

_get_current_season(t) == SeasonOf(NowYear(t), NowMonth(t))

---------------------------------------------------------------------------
(* TimeConverter (time_converter.py).  A parsed timestamp is a civil UTC   *)
(* time [y, mo, d, h, mi].                                                 *)

IsLeap(y) == (y % 4 = 0 /\ y % 100 # 0) \/ y % 400 = 0

DaysInMonth(y, mo) ==
    CASE mo = 2 -> IF IsLeap(y) THEN 29 ELSE 28
      [] mo \in {4, 6, 9, 11} -> 30
      [] OTHER -> 31

\* days from 1970-01-01 to the civil date (the proleptic Gregorian calendar
\* datetime uses)
DaysFromCivil(y, mo, d) ==
    LET yy == IF mo <= 2 THEN y - 1 ELSE y
        era == yy \div 400
        yoe == yy - era * 400
        mp == (mo + 9) % 12
        doy == (153 * mp + 2) \div 5 + d - 1
        doe == yoe * 365 + yoe \div 4 - yoe \div 100 + doy
    IN era * 146097 + doe - 719468

\* 0 = Monday .. 6 = Sunday, as datetime.weekday()
Weekday(y, mo, d) == (DaysFromCivil(y, mo, d) + 3) % 7

LastSunday(y, mo) ==
    CHOOSE d \in 1..DaysInMonth(y, mo) :
        /\ Weekday(y, mo, d) = 6
        /\ d + 7 > DaysInMonth(y, mo)

\* minutes from 1970-01-01T00:00Z
EpochMinutes(c) == (DaysFromCivil(c.y, c.mo, c.d) * 24 + c.h) * 60 + c.mi

\* is_dst_active with the daylight saving rule lost: always standard time
is_dst_active_never(c) == FALSE

\* Europe/Stockholm: summer time from 01:00 UTC on the last Sunday of March
\* to 01:00 UTC on the last Sunday of October
is_dst_active(c) ==
    LET t == EpochMinutes(c)
        from == EpochMinutes([y |-> c.y, mo |-> 3, d |-> LastSunday(c.y, 3), h |-> 1, mi |-> 0])
        to == EpochMinutes([y |-> c.y, mo |-> 10, d |-> LastSunday(c.y, 10), h |-> 1, mi |-> 0])
    IN t >= from /\ t < to

\* utc_dt.astimezone(SWEDEN_TZ): the civil time `off` hours later
ShiftHours(c, off) ==
    LET h == c.h + off
    IN IF h < 24 THEN [c EXCEPT !.h = h]
       ELSE IF c.d < DaysInMonth(c.y, c.mo) THEN [c EXCEPT !.h = h - 24, !.d = c.d + 1]
       ELSE IF c.mo < 12 THEN [c EXCEPT !.h = h - 24, !.d = 1, !.mo = c.mo + 1]
       ELSE [c EXCEPT !.h = h - 24, !.d = 1, !.mo = 1, !.y = c.y + 1]

\* the calendar date of day ordinal n (0 is 31 July of StartYear)
RECURSIVE CivilOfDay(_)
CivilOfDay(n) ==
    IF n = 0 THEN [y |-> StartYear, mo |-> 7, d |-> 31, h |-> 0, mi |-> 0]
    ELSE ShiftHours([CivilOfDay(n - 1) EXCEPT !.h = 23], 1)

\* the timestamp a kickoff code stands for: slot 0 of day n is 00:01 UTC,
\* slot s > 0 is (18 + s):00 UTC
SlotHour(s) == IF s = 0 THEN 0 ELSE 18 + s
SlotMinute(s) == IF s = 0 THEN 1 ELSE 0

StampCivil(c) ==
    [CivilOfDay(StampDay(c)) EXCEPT !.h = SlotHour(StampSlot(c)),
                                    !.mi = SlotMinute(StampSlot(c))]

\* datetime.strptime(utc_timestamp, fmt) raises TypeError, which no except
\* clause of _parse_utc_timestamp names, when the value is no string (and is
\* not falsy, which `if not utc_timestamp` turns into None)
ParseRaises(code) == code = NonStr

\* _parse_utc_timestamp: <<>> is None
_parse_utc_timestamp(code) ==
    IF code = PyNone \/ code = EmptyStr THEN <<>>
    ELSE IF IsStamp(code) THEN <<StampCivil(code)>>
    ELSE <<>>

NoDate == [y |-> 0, mo |-> 0, d |-> 0]

\* lines 54-65 of utc_to_swedish_full: the parsed UTC time utc_dt in Swedish
\* local time
SwedishOf(utc_dt) ==
    LET is_dst == is_dst_active(utc_dt)
        sw == ShiftHours(utc_dt, IF is_dst THEN 2 ELSE 1)
    IN [date |-> [y |-> sw.y, mo |-> sw.mo, d |-> sw.d],
        time |-> [h |-> sw.h, mi |-> sw.mi],
        day_of_week |-> Weekday(sw.y, sw.mo, sw.d),
        timezone |-> IF is_dst THEN "CEST" ELSE "CET"]

utc_to_swedish_full(code) ==
    LET p == _parse_utc_timestamp(code)
    IN IF p = <<>>
       THEN [date |-> NoDate, time |-> [h |-> 0, mi |-> 0],
             day_of_week |-> PyNone, timezone |-> "CET"]
       ELSE SwedishOf(p[1])

---------------------------------------------------------------------------
(* Raw fixtures of API-Football and their enrichment (top5_leagues.py).    *)
(* A raw fixture is                                                        *)
(*   [league : Missing, Null, 0 (a league object without id) or the id,    *)
(*    fx     : "missing", "null" or "ok" (the "fixture" object),           *)
(*    id     : Missing, Null or the fixture id,                            *)
(*    date   : Missing, Null, NonStr or a kickoff string code,             *)
(*    status : "missing", "null" or the short status,                      *)
(*    teams  : "missing", "null" or "ok",                                  *)
(*    home, away : Missing, Null or the team id,                           *)
(*    goals  : "missing", "null" or "ok",  gh, ga : Missing, Null or goals]*)

OptInt(v) == IF v = Missing THEN PyNone ELSE v

\* the exceptions _enrich_match_data's try block catches: .get on None, and
\* strptime on a value that is no string
EnrichRaises(f) ==
    \/ f.league = Null
    \/ f.fx = "null"
    \/ f.teams = "null"
    \/ f.goals = "null"
    \/ f.fx = "ok" /\ ParseRaises(f.date)
    \/ f.fx = "ok" /\ f.status = "null"
    \/ f.teams = "ok" /\ (f.home = Null \/ f.away = Null)

\* league_id = league_data.get('id'): None when the league object has no id
LeagueIdOf(f) == IF f.league \in {Missing, Null, 0} THEN PyNone ELSE f.league

\* the dict _enrich_match_data returns (lines 240-272); league_info is {}
\* for an id that LEAGUE_NAMES does not hold, and the names then come from
\* the upstream league object, of which the model keeps the id alone
EnrichedMatch(f, league_id) ==
    LET utc_timestamp == IF f.fx = "missing" \/ f.date = Missing THEN EmptyStr ELSE f.date
        swedish_time_info == utc_to_swedish_full(utc_timestamp)
        home == IF f.teams = "missing" THEN Missing ELSE f.home
        away == IF f.teams = "missing" THEN Missing ELSE f.away
        known == league_id \in DOMAIN LEAGUE_NAMES
    IN [id |-> IF f.fx = "missing" THEN PyNone ELSE OptInt(f.id),
        league |-> [id |-> league_id,
                    name |-> IF known THEN LEAGUE_NAMES[league_id].name ELSE "",
                    country |-> IF known THEN LEAGUE_NAMES[league_id].country ELSE ""],
        home_team |-> [id |-> OptInt(home)],
        away_team |-> [id |-> OptInt(away)],
        kickoff |-> [utc |-> utc_timestamp,
                     swedish_time |-> swedish_time_info.time,
                     swedish_date |-> swedish_time_info.date,
                     day_of_week |-> swedish_time_info.day_of_week,
                     timezone |-> swedish_time_info.timezone],
        status |-> IF f.fx = "missing" \/ f.status = "missing" THEN "NS" ELSE f.status,
        score |-> [home |-> IF f.goals = "missing" THEN PyNone ELSE OptInt(f.gh),
                   away |-> IF f.goals = "missing" THEN PyNone ELSE OptInt(f.ga)],
        broadcast_channels |-> get_broadcast_channels(league_id)]

\* _enrich_match_data with the check of the league id left out
_enrich_match_data_unfiltered(f) ==
    IF EnrichRaises(f) THEN <<>> ELSE <<EnrichedMatch(f, LeagueIdOf(f))>>

\* _enrich_match_data: <<>> is None, <<m>> the enriched match
_enrich_match_data(f) ==
    IF f.league = Null THEN <<>>
    ELSE IF LeagueIdOf(f) \notin LeagueIdSet THEN <<>>
    ELSE IF EnrichRaises(f) THEN <<>>
    ELSE <<EnrichedMatch(f, LeagueIdOf(f))>>

\* the enriched matches of a response's fixtures, in the response's order
RECURSIVE EnrichAll(_)
EnrichAll(fixtures) ==
    IF fixtures = <<>> THEN <<>>
    ELSE _enrich_match_data(Head(fixtures)) \o EnrichAll(Tail(fixtures))

\* matches.sort(key=kickoff.utc): Python compares the keys with <, which
\* raises TypeError when a key is None; every element of a list of two or
\* more is compared at least once
SortRaises(ms) ==
    Len(ms) >= 2 /\ \E i \in 1..Len(ms) : ms[i].kickoff.utc = PyNone

\* m put into the sorted list s after every element whose key is not larger
RECURSIVE InsertByKickoff(_, _)
InsertByKickoff(s, m) ==
    IF s = <<>> THEN <<m>>
    ELSE IF m.kickoff.utc < Head(s).kickoff.utc THEN <<m>> \o s
    ELSE <<Head(s)>> \o InsertByKickoff(Tail(s), m)

\* list.sort is stable
RECURSIVE SortByKickoffFrom(_, _)
SortByKickoffFrom(done, rest) ==
    IF rest = <<>> THEN done
    ELSE CHOOSE r \in {SortByKickoffFrom(s, Tail(rest)) :
                           s \in {InsertByKickoff(done, Head(rest))}} : TRUE

\* matches.sort left out: the list stays in the order it was gathered in
SortByKickoff_skipped(ms) == ms

SortByKickoff(ms) == SortByKickoffFrom(<<>>, ms)

---------------------------------------------------------------------------
(* The upstream provider.  A response of _make_request is                  *)
(* [kind |-> "absent"] (None: transport error, non-2xx, bad body),         *)
(* [kind |-> "nokey"] (a JSON body without "response") or                  *)
(* [kind |-> "ok", response |-> the fixtures].  What upstream holds is one *)
(* of the scenarios FeedNames, fixed for a behaviour; any request may also *)
(* fail as a whole (down).                                                 *)

Absent == [kind |-> "absent", response |-> <<>>]
NoKey == [kind |-> "nokey", response |-> <<>>]
Ok(fixtures) == [kind |-> "ok", response |-> fixtures]

\* a well-formed fixture
Fx(id, lg, date) ==
    [league |-> lg, fx |-> "ok", id |-> id, date |-> date, status |-> "NS",
     teams |-> "ok", home |-> 2 * id, away |-> 2 * id + 1,
     goals |-> "ok", gh |-> Null, ga |-> Null]

FeedNames == {"clean", "empty", "partial", "malformed", "foreign", "late", "mixed"}

\* the answer to GET /fixtures?league=lg&season=..&date=d
FeedFixtures(name, lg, d) ==
    CASE name = "clean" ->
            CASE lg = 39 -> Ok(<<Fx(10 * d + 1, 39, StampCode(d, 2)),
                                 Fx(10 * d + 2, 39, StampCode(d, 0))>>)
              [] lg = 140 -> Ok(<<Fx(10 * d + 3, 140, StampCode(d, 1)),
                                  Fx(10 * d + 4, 140, StampCode(d, 2))>>)
              [] OTHER -> Ok(<<>>)
      [] name = "empty" -> Ok(<<>>)
      [] name = "partial" ->
            CASE lg = 39 -> Ok(<<Fx(10 * d + 1, 39, StampCode(d, 1))>>)
              [] lg = 135 -> NoKey
              [] lg = 61 -> Ok(<<Fx(10 * d + 5, 61, StampCode(d, 0))>>)
              [] OTHER -> Absent
      [] name = "malformed" ->
            CASE lg = 39 ->
                    Ok(<<[Fx(10 * d + 1, 39, Null) EXCEPT !.date = Null],
                         Fx(10 * d + 2, 39, StampCode(d, 1)),
                         [Fx(10 * d + 3, 39, StampCode(d, 0)) EXCEPT !.league = Null]>>)
              [] lg = 140 ->
                    Ok(<<[Fx(10 * d + 4, 140, StampCode(d, 2)) EXCEPT !.teams = "missing"],
                         [Fx(10 * d + 5, 140, StampCode(d, 0)) EXCEPT !.away = 2 * (10 * d + 5)],
                         [Fx(10 * d + 6, 140, StampCode(d, 1)) EXCEPT !.home = Null]>>)
              [] lg = 78 ->
                    Ok(<<[Fx(10 * d + 7, 78, NonStr) EXCEPT !.date = NonStr],
                         [Fx(10 * d + 8, 78, StampCode(d, 0)) EXCEPT !.goals = "null"],
                         [Fx(10 * d + 9, 78, StampCode(d, 1)) EXCEPT !.fx = "null"]>>)
              [] lg = 135 ->
                    Ok(<<[Fx(10 * d + 7, 135, GarbageStr) EXCEPT !.date = GarbageStr],
                         [Fx(10 * d + 8, 135, StampCode(d, 0)) EXCEPT !.home = Missing]>>)
              [] OTHER -> Ok(<<[Fx(10 * d + 9, 61, StampCode(d, 0)) EXCEPT !.league = Missing]>>)
      [] name = "foreign" ->
            CASE lg = 39 -> Ok(<<Fx(1, 999, StampCode(d, 0)),
                                 Fx(2, 140, StampCode(d, 1)),
                                 Fx(3, 39, StampCode(0, 2))>>)
              [] lg = 140 -> Ok(<<Fx(2, 140, StampCode(d, 1))>>)
              [] OTHER -> Ok(<<>>)
      [] name = "late" ->
            CASE lg = 39 -> IF d = 0 THEN Ok(<<Fx(1, 39, StampCode(0, 1))>>)
                            ELSE Ok(<<[Fx(10 * d + 1, 39, Missing) EXCEPT !.date = Missing]>>)
              [] lg = 140 -> Ok(<<Fx(10 * d + 2, 140, StampCode(LastDay - d, 0))>>)
              [] OTHER -> Ok(<<>>)
      [] name = "mixed" ->
            CASE lg = 39 -> Ok(<<[Fx(10 * d + 1, 39, Null) EXCEPT !.date = Null],
                                 Fx(10 * d + 2, 39, StampCode(d, 2))>>)
              [] lg = 78 -> Ok(<<Fx(10 * d + 3, 78, StampCode(d, 1))>>)
              [] OTHER -> Absent

\* the answer to GET /fixtures?live=all on day d: every live fixture, of any league
FeedLive(name, d) ==
    CASE name = "clean" -> Ok(<<Fx(1, 39, StampCode(d, 2)), Fx(2, 999, StampCode(d, 0)),
                                Fx(3, 140, StampCode(d, 0)), Fx(4, 39, StampCode(d, 1))>>)
      [] name = "empty" -> Ok(<<>>)
      [] name = "partial" -> NoKey
      [] name = "malformed" -> Ok(<<[Fx(1, 39, Null) EXCEPT !.date = Null],
                                    [Fx(2, 61, StampCode(d, 0)) EXCEPT !.league = Null],
                                    Fx(3, 61, StampCode(d, 0))>>)
      [] name = "foreign" -> Ok(<<Fx(1, 999, StampCode(d, 0))>>)
      [] name = "late" -> Ok(<<Fx(1, 61, StampCode(d, 1)), Fx(2, 39, StampCode(d, 1))>>)
      [] name = "mixed" -> Absent

---------------------------------------------------------------------------
(* The cache (django.core.cache).  cache maps the keys that were set to    *)
(* [val, at, exp]: the value, when it was set and when it expires; an      *)
(* entry is served while now < exp.                                        *)

MATCHES_TTL == 3600
LIVE_TTL == 60

EmptyCache == [k \in {} |-> [val |-> <<>>, at |-> 0, exp |-> 0]]

\* an entry that is served however old it is
IsFresh_unexpiring(c, key, t) == key \in DOMAIN c

IsFresh(c, key, t) == key \in DOMAIN c /\ t < c[key].exp

\* cache.get(key): <<>> is None, <<v>> the stored value
CacheGet(c, key, t) == IF IsFresh(c, key, t) THEN <<c[key].val>> ELSE <<>>

\* a set that appends the list to the one the key holds
CacheSet_appending(c, key, val, t, timeout) ==
    [k \in DOMAIN c \cup {key} |->
        IF k = key
        THEN [val |-> (IF key \in DOMAIN c THEN c[key].val ELSE <<>>) \o val,
              at |-> t, exp |-> t + timeout]
        ELSE c[k]]

\* cache.set(key, val, timeout)
CacheSet(c, key, val, t, timeout) ==
    [k \in DOMAIN c \cup {key} |->
        IF k = key THEN [val |-> val, at |-> t, exp |-> t + timeout] ELSE c[k]]

\* cache_key = f"top5_matches_{league_id}_{date}"
MatchesKey(league_id, date) == <<"top5_matches", league_id, date>>
LiveKey == <<"top5_live_matches">>

\* `if cached:` on a cached list: None and the empty list are both false
ListTruthy(got) == got # <<>> /\ Len(got[1]) > 0

---------------------------------------------------------------------------
(* FootballAPI (football_api.py) *)

\* an upstream request: the endpoint and its query parameters; a parameter
\* that is not sent is PyNone ("" for the strings)
Request(endpoint, league_id, season, date, live, next, id, country) ==
    [endpoint |-> endpoint, league |-> league_id, season |-> season, date |-> date,
     live |-> live, next |-> next, id |-> id, country |-> country]

\* the query parameters get_fixtures sends: a falsy argument is left out
FixturesRequest(league_id, season, date, live) ==
    Request("/fixtures", league_id, season, date, live, PyNone, PyNone, "")

\* FootballAPI.get_fixtures(league_id, season, date): the upstream's answer
get_fixtures(name, down, league_id, date) ==
    IF down THEN Absent ELSE FeedFixtures(name, league_id, date)

\* match.get('league', {}).get('id') raises AttributeError on "league": null
LiveFilterRaises(all_live) ==
    all_live.kind = "ok" /\ \E i \in 1..Len(all_live.response) : all_live.response[i].league = Null

\* FootballAPI.get_live_matches(league_id): all live fixtures, filtered by league
RECURSIVE FilterLeague(_, _)
FilterLeague(fixtures, league_id) ==
    IF fixtures = <<>> THEN <<>>
    ELSE (IF Head(fixtures).league = league_id THEN <<Head(fixtures)>> ELSE <<>>)
         \o FilterLeague(Tail(fixtures), league_id)

FootballAPI_get_live_matches(name, down, league_id, today) ==
    LET all_live == IF down THEN Absent ELSE FeedLive(name, today)
    IN IF all_live.kind = "ok"
       THEN Ok(FilterLeague(all_live.response, league_id))
       ELSE all_live

---------------------------------------------------------------------------
(* Top5LeaguesService (top5_leagues.py).  A call's outcome is              *)
(* [cache, reqs, raised, matches]: the cache after it, the upstream        *)
(* requests it issued in order, whether an exception left it, and the      *)
(* list it returned.                                                       *)
(* A loop's state is bound once per pass, CHOOSE r \in {F(s) : s \in {e}}:  *)
(* the value of e is computed a single time and F is applied to it.        *)

NoLeague == "<None>"
LeagueTruthy(league) == league # NoLeague /\ league # ""

\* a pass that sends the request a second time when the first one failed
FetchLeague_retrying(st, league_id, date, season, t, name, down) ==
    LET cached == CacheGet(st.cache, MatchesKey(league_id, date), t)
        response == get_fixtures(name, down, league_id, date)
        request == FixturesRequest(league_id, season, date, "")
    IN IF ListTruthy(cached) THEN [st EXCEPT !.matches = @ \o cached[1]]
       ELSE IF response.kind = "ok"
       THEN [cache |-> CacheSet(st.cache, MatchesKey(league_id, date),
                                EnrichAll(response.response), t, MATCHES_TTL),
             reqs |-> Append(st.reqs, request),
             matches |-> st.matches \o EnrichAll(response.response)]
       ELSE [st EXCEPT !.reqs = Append(Append(st.reqs, request), request)]

\* one pass of the loop `for league_id in league_ids` of _fetch_matches_for_date
FetchLeague(st, league_id, date, season, t, name, down) ==
    LET cache_key == MatchesKey(league_id, date)
        cached == CacheGet(st.cache, cache_key, t)
    IN IF ListTruthy(cached)
       THEN [st EXCEPT !.matches = @ \o cached[1]]
       ELSE LET response == get_fixtures(name, down, league_id, date)
                reqs == Append(st.reqs, FixturesRequest(league_id, season, date, ""))
            IN IF response.kind = "ok"
               THEN LET league_matches == EnrichAll(response.response)
                    IN [cache |-> CacheSet(st.cache, cache_key, league_matches, t, MATCHES_TTL),
                        reqs |-> reqs,
                        matches |-> st.matches \o league_matches]
               ELSE [st EXCEPT !.reqs = reqs]

RECURSIVE FetchLeagues(_, _, _, _, _, _, _)
FetchLeagues(st, league_ids, date, season, t, name, down) ==
    IF league_ids = <<>> THEN st
    ELSE CHOOSE r \in {FetchLeagues(s, Tail(league_ids), date, season, t, name, down) :
                           s \in {FetchLeague(st, Head(league_ids), date, season, t,
                                              name, down)}} : TRUE

_fetch_matches_for_date(c, t, date, league, name, down) ==
    LET current_season == _get_current_season(t)
        league_ids == IF LeagueTruthy(league) THEN <<LEAGUE_IDS[league]>> ELSE LeagueIdList
        Sorted(st) ==
            IF SortRaises(st.matches)
            THEN [cache |-> st.cache, reqs |-> st.reqs, raised |-> TRUE, matches |-> <<>>]
            ELSE [cache |-> st.cache, reqs |-> st.reqs, raised |-> FALSE,
                  matches |-> SortByKickoff(st.matches)]
    IN CHOOSE r \in {Sorted(st) :
                        st \in {FetchLeagues([cache |-> c, reqs |-> <<>>, matches |-> <<>>],
                                             league_ids, date, current_season, t,
                                             name, down)}} : TRUE

\* the loop `for i in range(days_ahead)` of _fetch_matches_for_range, from day i on
RECURSIVE FetchRange(_, _, _, _, _, _, _)
FetchRange(st, i, days_ahead, league, t, name, down) ==
    IF i >= days_ahead THEN st
    ELSE LET Extended(day) ==
                 IF day.raised
                 THEN [cache |-> day.cache, reqs |-> st.reqs \o day.reqs,
                       raised |-> TRUE, matches |-> <<>>]
                 ELSE [cache |-> day.cache, reqs |-> st.reqs \o day.reqs,
                       raised |-> FALSE, matches |-> st.matches \o day.matches]
         IN CHOOSE r \in
                {IF s.raised THEN s
                 ELSE FetchRange(s, i + 1, days_ahead, league, t, name, down) :
                     s \in {Extended(day) :
                               day \in {_fetch_matches_for_date(st.cache, t, NowDay(t) + i,
                                                                league, name, down)}}} : TRUE

_fetch_matches_for_range(c, t, days_ahead, league, name, down) ==
    FetchRange([cache |-> c, reqs |-> <<>>, raised |-> FALSE, matches |-> <<>>],
               0, days_ahead, league, t, name, down)

\* get_matches: date is a day ordinal or PyNone; the response is
\* [kind |-> "error", error, matches] or [kind |-> "ok", count, matches]
INVALID_LEAGUE == "Invalid league filter. Valid options: [...]"

\* lines 65-82 of get_matches: the fetch and the response built from it
FetchMatches(c, t, date, league, days_ahead, name, down) ==
    LET Result(r) ==
            [cache |-> r.cache, reqs |-> r.reqs, raised |-> r.raised,
             response |-> [kind |-> "ok", error |-> "", count |-> Len(r.matches),
                           matches |-> r.matches]]
    IN CHOOSE res \in
           {Result(r) :
               r \in {IF date # PyNone
                      THEN _fetch_matches_for_date(c, t, date, league, name, down)
                      ELSE _fetch_matches_for_range(c, t, days_ahead, league,
                                                    name, down)}} : TRUE

\* get_matches with the validation of the league filter lost: an unknown
\* filter is served as no filter
get_matches_unvalidated(c, t, date, league, days_ahead, name, down) ==
    FetchMatches(c, t, date,
                 IF LeagueTruthy(league) /\ league \notin DOMAIN LEAGUE_IDS
                 THEN NoLeague ELSE league,
                 days_ahead, name, down)

get_matches(c, t, date, league, days_ahead, name, down) ==
    IF LeagueTruthy(league) /\ league \notin DOMAIN LEAGUE_IDS
    THEN [cache |-> c, reqs |-> <<>>, raised |-> FALSE,
          response |-> [kind |-> "error", error |-> INVALID_LEAGUE, count |-> PyNone,
                        matches |-> <<>>]]
    ELSE FetchMatches(c, t, date, league, days_ahead, name, down)

\* one pass of the loop over LEAGUE_IDS of get_live_matches
LiveLeague(st, league_id, t, name, down) ==
    LET all_live == IF down THEN Absent ELSE FeedLive(name, NowDay(t))
        reqs == Append(st.reqs, FixturesRequest(PyNone, PyNone, PyNone, "all"))
    IN IF st.raised THEN st
       ELSE IF LiveFilterRaises(all_live) THEN [st EXCEPT !.reqs = reqs, !.raised = TRUE]
       ELSE LET response == FootballAPI_get_live_matches(name, down, league_id, NowDay(t))
            IN IF response.kind = "ok"
               THEN [st EXCEPT !.reqs = reqs, !.matches = @ \o EnrichAll(response.response)]
               ELSE [st EXCEPT !.reqs = reqs]

RECURSIVE LiveLeagues(_, _, _, _, _)
LiveLeagues(st, league_ids, t, name, down) ==
    IF league_ids = <<>> THEN st
    ELSE CHOOSE r \in {LiveLeagues(s, Tail(league_ids), t, name, down) :
                           s \in {LiveLeague(st, Head(league_ids), t, name, down)}} : TRUE

get_live_matches(c, t, name, down) ==
    LET cached == CacheGet(c, LiveKey, t)
    IN IF cached # <<>>
       THEN [cache |-> c, reqs |-> <<>>, raised |-> FALSE, response |-> cached[1]]
       ELSE LET result(st) == [kind |-> "ok", error |-> "", count |-> Len(st.matches),
                                   matches |-> st.matches]
                Stored(st) ==
                    IF st.raised
                    THEN [cache |-> c, reqs |-> st.reqs, raised |-> TRUE,
                          response |-> result(st)]
                    ELSE [cache |-> CacheSet(c, LiveKey, result(st), t, LIVE_TTL),
                          reqs |-> st.reqs, raised |-> FALSE, response |-> result(st)]
            IN CHOOSE r \in
                   {Stored(st) :
                       st \in {LiveLeagues([reqs |-> <<>>, raised |-> FALSE,
                                            matches |-> <<>>],
                                           LeagueIdList, t, name, down)}} : TRUE

---------------------------------------------------------------------------
(* The state machine of the aggregation service.  last records the last    *)
(* call: the operation, its arguments, and its outcome.                    *)

DateInputs == 0..MaxDaysAhead
LeagueInputs == {NoLeague, "", "premier_league", "esports"}

NoCall ==
    [op |-> "none", date |-> PyNone, league |-> NoLeague, days_ahead |-> 0, down |-> FALSE,
     at |-> 0, reqs |-> <<>>, raised |-> FALSE,
     response |-> [kind |-> "ok", error |-> "", count |-> 0, matches |-> <<>>]]

Record(op, date, league, days_ahead, down, r) ==
    [op |-> op, date |-> date, league |-> league, days_ahead |-> days_ahead, down |-> down,
     at |-> now, reqs |-> r.reqs, raised |-> r.raised, response |-> r.response]

Init ==
    /\ cache = EmptyCache
    /\ now = 0
    /\ feed \in FeedNames
    /\ last = NoCall
    /\ calls = 0
    /\ ticks = 0
    /\ OthersIdle

\* GET /api/content/football/top5/?date=..&league=..
MatchesForDate ==
    /\ calls < MaxCalls
    /\ \E date \in DateInputs, league \in LeagueInputs, down \in BOOLEAN :
        \E r \in {get_matches(cache, now, date, league, 7, feed, down)} :
           /\ cache' = r.cache
           /\ last' = Record("matchesForDate", date, league, 7, down, r)
           /\ calls' = calls + 1
           /\ UNCHANGED <<now, feed, ticks, others>>

\* GET /api/content/football/top5/?days_ahead=..&league=..
MatchesForRange ==
    /\ calls < MaxCalls
    /\ \E days_ahead \in 0..MaxDaysAhead, league \in LeagueInputs, down \in BOOLEAN :
        \E r \in {get_matches(cache, now, PyNone, league, days_ahead, feed, down)} :
           /\ cache' = r.cache
           /\ last' = Record("matchesForRange", PyNone, league, days_ahead, down, r)
           /\ calls' = calls + 1
           /\ UNCHANGED <<now, feed, ticks, others>>

\* GET /api/content/football/top5/live/
LiveMatches ==
    /\ calls < MaxCalls
    /\ \E down \in BOOLEAN :
        \E r \in {get_live_matches(cache, now, feed, down)} :
           /\ cache' = r.cache
           /\ last' = Record("liveMatches", PyNone, NoLeague, 0, down, r)
           /\ calls' = calls + 1
           /\ UNCHANGED <<now, feed, ticks, others>>

\* time passes: a minute or an hour
TickSteps == {LIVE_TTL, MATCHES_TTL}

Tick ==
    \E d \in TickSteps :
        /\ ticks < MaxTicks
        /\ now' = now + d
        /\ ticks' = ticks + 1
        /\ UNCHANGED <<cache, feed, last, calls, others>>

Next == MatchesForDate \/ MatchesForRange \/ LiveMatches \/ Tick

Spec == Init /\ [][Next]_vars

---------------------------------------------------------------------------
(* PremierLeagueAPI._format_match (premier_league_api.py).  A raw match of *)
(* the schedule endpoint is                                                *)
(*   [id, date : as a fixture's date,                                      *)
(*    status : "missing", "null" or "ok",  state, detail : strings,        *)
(*    teams : "missing", "null" or "ok",                                   *)
(*    list : the team list, each [id, isHome]]                             *)

PL_LEAGUE_ID == 39

\* next((i for t in teams if pred(t)), default): the first index that fits
FirstIndex(teams, flagged, default) ==
    IF \E i \in 1..Len(teams) : teams[i].isHome = flagged
    THEN CHOOSE i \in 1..Len(teams) :
            /\ teams[i].isHome = flagged
            /\ \A j \in 1..(i - 1) : teams[j].isHome # flagged
    ELSE default

\* indices are those of TLA+ sequences: Python's teams[1] is list[2]
HomeIndex(teams) == FirstIndex(teams, TRUE, 2)
AwayIndex(teams) == FirstIndex(teams, FALSE, 1)

\* _format_match: <<>> is None, <<m>> the formatted match
_format_match(match) ==
    IF match.teams = "null" \/ match.status = "null" THEN <<>>
    ELSE LET teams == IF match.teams = "missing" THEN <<>> ELSE match.list
         IN IF Len(teams) < 2 THEN <<>>
            ELSE IF ParseRaises(match.date) THEN <<>>
            ELSE LET home_team == teams[HomeIndex(teams)]
                     away_team == teams[AwayIndex(teams)]
                     utc_time == IF match.date = Missing THEN EmptyStr ELSE match.date
                     swedish_time == utc_to_swedish_full(utc_time)
                 IN << [id |-> OptInt(match.id),
                        league |-> [id |-> PL_LEAGUE_ID, name |-> "Premier League",
                                    country |-> "England"],
                        home_team |-> [id |-> home_team.id],
                        away_team |-> [id |-> away_team.id],
                        kickoff |-> [utc |-> utc_time,
                                     swedish_time |-> swedish_time.time,
                                     swedish_date |-> swedish_time.date,
                                     day_of_week |-> swedish_time.day_of_week,
                                     timezone |-> swedish_time.timezone],
                        status |-> IF match.status = "missing" THEN "Scheduled"
                                   ELSE match.detail,
                        broadcast_channels |-> get_broadcast_channels(PL_LEAGUE_ID)] >>

---------------------------------------------------------------------------
(* The enrichment functions applied to bounded sets of raw records:        *)
(* SpecPure.  A behaviour applies one function to one record; last is     *)
(* [op, input, output].                                                    *)

\* longest team list of a raw match
MaxTeams == 3

OptIds == {Missing, Null, 1, 2}

RawFixtures ==
    [league : {Missing, Null, 0, 39, 999},
     fx : {"missing", "null", "ok"},
     id : {7},
     date : {Missing, Null, NonStr, StampCode(0, 1), GarbageStr},
     status : {"NS"},
     teams : {"missing", "null", "ok"},
     home : OptIds,
     away : OptIds,
     goals : {"ok"},
     gh : {Null},
     ga : {Null}]

\* team lists: element i is team i, flagged or not
TeamLists ==
    UNION {[1..n -> BOOLEAN] : n \in 0..MaxTeams}

TeamsOf(flags) == [i \in DOMAIN flags |-> [id |-> i, isHome |-> flags[i]]]

RawMatches ==
    {[id |-> 7, date |-> date, status |-> "ok", state |-> "pre", detail |-> "Scheduled",
      teams |-> teams, list |-> TeamsOf(flags)] :
        date \in {StampCode(0, 1), Missing}, teams \in {"missing", "null", "ok"},
        flags \in TeamLists}

InitPure ==
    /\ cache = EmptyCache
    /\ now = 0
    /\ feed = "empty"
    /\ last = [op |-> "none"]
    /\ calls = 0
    /\ ticks = 0
    /\ OthersIdle

Enrich ==
    \E f \in RawFixtures :
        /\ calls = 0
        /\ calls' = 1
        /\ last' = [op |-> "enrich", input |-> f, output |-> _enrich_match_data(f)]
        /\ UNCHANGED <<cache, now, feed, ticks, others>>

FormatMatch ==
    \E m \in RawMatches :
        /\ calls = 0
        /\ calls' = 1
        /\ last' = [op |-> "format_match", input |-> m, output |-> _format_match(m)]
        /\ UNCHANGED <<cache, now, feed, ticks, others>>

\* TimeConverter.utc_to_swedish_full applied to one value
TimestampInputs == {PyNone, EmptyStr, NonStr, GarbageStr, StampCode(0, 1), StampCode(1, 0)}

SwedishFull ==
    \E code \in TimestampInputs :
        /\ calls = 0
        /\ calls' = 1
        /\ last' = [op |-> "utc_to_swedish_full", input |-> code,
                    raised |-> ParseRaises(code),
                    output |-> IF ParseRaises(code) THEN <<>>
                               ELSE <<utc_to_swedish_full(code)>>]
        /\ UNCHANGED <<cache, now, feed, ticks, others>>

\* utc_to_swedish_full applied to a timestamp that parses, given as the UTC
\* time it stands for: the two documented examples, the minutes around the
\* four daylight saving switches of 2024 and 2025, and the end of a year
Civil(y, mo, d, h, mi) == [y |-> y, mo |-> mo, d |-> d, h |-> h, mi |-> mi]

CivilInputs ==
    {Civil(2024, 7, 15, 18, 0), Civil(2024, 12, 1, 15, 0),
     Civil(2024, 3, 31, 0, 59), Civil(2024, 3, 31, 1, 0),
     Civil(2024, 10, 27, 0, 59), Civil(2024, 10, 27, 1, 0),
     Civil(2025, 3, 30, 0, 59), Civil(2025, 3, 30, 1, 0),
     Civil(2025, 10, 26, 0, 59), Civil(2025, 10, 26, 1, 0),
     Civil(2024, 2, 29, 23, 30), Civil(2024, 12, 31, 23, 30),
     Civil(2025, 6, 30, 22, 15)}

SwedishCivil ==
    \E c \in CivilInputs :
        /\ calls = 0
        /\ calls' = 1
        /\ last' = [op |-> "utc_to_swedish_full_parsed", input |-> c,
                    output |-> SwedishOf(c)]
        /\ UNCHANGED <<cache, now, feed, ticks, others>>

\* BroadcastService.get_broadcast_channels applied to one league id: the
\* five configured ids, None, and ids of leagues that are not configured
BroadcastInputs == LeagueIdSet \cup {PyNone, 0, 1, 40, 999}

BroadcastChannels ==
    \E league_id \in BroadcastInputs :
        /\ calls = 0
        /\ calls' = 1
        /\ last' = [op |-> "get_broadcast_channels", input |-> league_id,
                    output |-> get_broadcast_channels(league_id)]
        /\ UNCHANGED <<cache, now, feed, ticks, others>>

\* _make_request of the three upstream clients.  What requests.get meets:
\* no connection, a timeout, a final status of 3xx (a redirect that is not
\* followed), 4xx or 5xx, a 2xx answer whose body is no JSON, a 2xx answer
\* with a JSON body.  The 3xx answer carries a JSON body.
Clients == {"FootballAPI", "PremierLeagueAPI", "StreamingAvailabilityAPI"}

HttpOutcomes ==
    {"connection_error", "timeout", "status_3xx", "status_4xx", "status_5xx",
     "invalid_json", "ok"}

\* the exceptions that are RequestException: ConnectionError and Timeout of
\* requests.get, HTTPError of raise_for_status (4xx and 5xx only),
\* JSONDecodeError of response.json() (requests 2.27 and later)
RaisesRequestException(outcome) ==
    outcome \in {"connection_error", "timeout", "status_4xx", "status_5xx", "invalid_json"}

\* [raised, data]: data is "none" or the decoded "body"
_make_request(client, outcome) ==
    IF RaisesRequestException(outcome)
    THEN [raised |-> FALSE, data |-> "none"]
    ELSE [raised |-> FALSE, data |-> "body"]

MakeRequest ==
    \E client \in Clients, outcome \in HttpOutcomes :
        /\ calls = 0
        /\ calls' = 1
        /\ last' = [op |-> "_make_request", client |-> client, outcome |-> outcome,
                    result |-> _make_request(client, outcome)]
        /\ UNCHANGED <<cache, now, feed, ticks, others>>

NextPure ==
    Enrich \/ FormatMatch \/ SwedishFull \/ SwedishCivil \/ BroadcastChannels \/ MakeRequest

SpecPure == InitPure /\ [][NextPure]_vars

\* the raw fixture names a home and an away team, and they differ
TwoDistinctTeams(f) ==
    f.teams = "ok" /\ f.home > 0 /\ f.away > 0 /\ f.home # f.away

\* the home and away picks of a team list are two different elements of it
YieldsTwoDifferent(m) ==
    /\ m.teams = "ok"
    /\ Len(m.list) >= 2
    /\ HomeIndex(m.list) # AwayIndex(m.list)

\* C5: enrich returns null whenever the raw record does not identify two
\* distinct teams, in _enrich_match_data and in _format_match.
C5_NullWithoutTwoTeams ==
    /\ (last.op = "enrich" /\ ~TwoDistinctTeams(last.input)) => last.output = <<>>
    /\ (last.op = "format_match" /\ ~YieldsTwoDifferent(last.input)) => last.output = <<>>

Flagged(teams) == {i \in 1..Len(teams) : teams[i].isHome}

\* C6: for a two-element team list _format_match picks the flagged element
\* as home and the other as away when exactly one is flagged, element 1 as
\* home and element 0 as away when neither or both are; home and away are
\* different elements in all four cases.
C6_HomeAwayResolution ==
    (last.op = "format_match" /\ last.input.teams = "ok" /\ Len(last.input.list) = 2)
    => LET teams == last.input.list
           flagged == Flagged(teams)
       IN /\ last.output # <<>>
          /\ last.output[1].home_team.id # last.output[1].away_team.id
          /\ Cardinality(flagged) = 1 =>
                /\ \A i \in flagged : last.output[1].home_team.id = teams[i].id
                /\ \A i \in {1, 2} \ flagged : last.output[1].away_team.id = teams[i].id
          /\ Cardinality(flagged) # 1 =>
                /\ last.output[1].home_team.id = teams[2].id
                /\ last.output[1].away_team.id = teams[1].id

\* C16: kickoff.utc of an enriched match is the upstream fixture's date
\* string unchanged when the string parses as a timestamp, and the empty
\* string when it does not.
C16_KickoffUtcOriginalOrEmpty ==
    (last.op = "enrich" /\ last.output # <<>>)
    => LET date == IF last.input.fx = "ok" THEN last.input.date ELSE Missing
       IN last.output[1].kickoff.utc =
              (IF _parse_utc_timestamp(date) # <<>> THEN date ELSE EmptyStr)

\* C18: _make_request of every upstream client raises nothing and returns
\* None on a network failure, a timeout, a status that is not 2xx or a body
\* that is no JSON, and returns the decoded body otherwise.
C18_MakeRequestAbsentOnFailure ==
    last.op = "_make_request"
    => /\ ~last.result.raised
       /\ last.result.data = (IF last.outcome = "ok" THEN "body" ELSE "none")

\* the default utc_to_swedish_full returns for a value that does not parse
SwedishDefault ==
    [date |-> NoDate, time |-> [h |-> 0, mi |-> 0], day_of_week |-> PyNone,
     timezone |-> "CET"]

\* C20: for every input that does not parse as a timestamp
\* utc_to_swedish_full raises nothing and returns time "00:00", no date, no
\* day of week and timezone "CET".
C20_UnparseableYieldsDefault ==
    (last.op = "utc_to_swedish_full" /\ ~IsStamp(last.input))
    => /\ ~last.raised
       /\ last.output = <<SwedishDefault>>

\* C19: _enrich_match_data returns null for every raw fixture whose league
\* id is not one of 39, 140, 78, 135, 61, whatever its other fields.
C19_ForeignLeagueRejected ==
    (last.op = "enrich" /\ last.input.league \notin LeagueIdSet) => last.output = <<>>

\* C19's case: a fixture of league 999 that is well-formed in every field
C19_Witness ==
    /\ last.op = "enrich"
    /\ last.input.league = 999
    /\ last.input.fx = "ok" /\ IsStamp(last.input.date)
    /\ TwoDistinctTeams(last.input)
    /\ last.output = <<>>

\* daylight saving in Europe/Stockholm: from 01:00 UTC on 31 March to 01:00
\* UTC on 27 October in 2024, from 30 March to 26 October in 2025
SummerTime(c) ==
    LET t == EpochMinutes(c)
        In(y, md, od) == /\ c.y = y
                         /\ t >= EpochMinutes(Civil(y, 3, md, 1, 0))
                         /\ t < EpochMinutes(Civil(y, 10, od, 1, 0))
    IN In(2024, 31, 27) \/ In(2025, 30, 26)

\* C21: for a timestamp that parses, utc_to_swedish_full returns a time
\* HH:MM, and the label CEST with local time UTC+2 exactly when daylight
\* saving is in force at that instant, else CET with UTC+1;
\* 2024-07-15T18:00:00Z gives 2024-07-15, 20:00, Monday, CEST and
\* 2024-12-01T15:00:00Z gives 16:00, CET.
C21_SwedishTimeFollowsDst ==
    last.op = "utc_to_swedish_full_parsed"
    => LET c == last.input
           out == last.output
           local == Civil(out.date.y, out.date.mo, out.date.d, out.time.h, out.time.mi)
       IN /\ out.time.h \in 0..23 /\ out.time.mi \in 0..59
          /\ out.timezone = (IF SummerTime(c) THEN "CEST" ELSE "CET")
          /\ EpochMinutes(local) - EpochMinutes(c) = (IF SummerTime(c) THEN 120 ELSE 60)
          /\ out.day_of_week = (DaysFromCivil(local.y, local.mo, local.d) + 3) % 7
          /\ c = Civil(2024, 7, 15, 18, 0)
                => /\ out.date = [y |-> 2024, mo |-> 7, d |-> 15]
                   /\ out.time = [h |-> 20, mi |-> 0]
                   /\ out.day_of_week = 0
                   /\ out.timezone = "CEST"
          /\ c = Civil(2024, 12, 1, 15, 0)
                => out.time = [h |-> 16, mi |-> 0] /\ out.timezone = "CET"

\* C21's case: the documented summer example has been converted
C21_Witness ==
    /\ last.op = "utc_to_swedish_full_parsed"
    /\ last.input = Civil(2024, 7, 15, 18, 0)
    /\ last.output.timezone = "CEST"
    /\ last.output.time = [h |-> 20, mi |-> 0]

\* C22: get_broadcast_channels returns a non-empty list for every league
\* id: the configured channels of 39, 140, 78, 135 and 61, and exactly
\* ["Broadcast info unavailable"] for any other id; the broadcast_channels
\* of every enriched match, of either client, is therefore non-empty.
C22_BroadcastChannelsNonEmpty ==
    /\ last.op = "get_broadcast_channels" =>
           /\ Len(last.output) > 0
           /\ last.input = 39 => last.output = <<"Sky Sports", "TNT Sports", "NOW TV">>
           /\ last.input = 140 => last.output = <<"Premier Sports", "LaLigaTV">>
           /\ last.input = 78 => last.output = <<"Sky Sports", "TNT Sports">>
           /\ last.input = 135 => last.output = <<"TNT Sports", "BT Sport">>
           /\ last.input = 61 => last.output = <<"TNT Sports", "beIN Sports">>
           /\ last.input \notin {39, 140, 78, 135, 61} =>
                  last.output = <<"Broadcast info unavailable">>
    /\ last.op \in {"enrich", "format_match"} /\ last.output # <<>> =>
           Len(last.output[1].broadcast_channels) > 0

C22_Witness ==
    /\ last.op = "get_broadcast_channels"
    /\ last.input = 999
    /\ last.output = <<UNAVAILABLE_MESSAGE>>

---------------------------------------------------------------------------
(* The cached operations of FootballAPI (football_api.py).  A call's       *)
(* outcome is [cache, reqs, answers, raised, response]: answers are the    *)
(* kinds of the upstream's answers to reqs, response what the call         *)
(* returned.  A body is [kind, response]; "empty" is the JSON body {}.     *)

EmptyBody == [kind |-> "empty", response |-> <<>>]
Body(kind) == [kind |-> kind, response |-> <<>>]

\* `if data:` on a decoded body: None and {} are false
BodyTruthy(data) == data.kind \notin {"absent", "empty"}

REFERENCE_TTL == 604800
STANDINGS_TTL == 21600

\* the common shape of get_leagues, get_team_info and get_standings
CachedRequest(c, t, cache_key, req, answer, timeout) ==
    LET cached_data == CacheGet(c, cache_key, t)
    IN IF cached_data # <<>> /\ BodyTruthy(cached_data[1])
       THEN [cache |-> c, reqs |-> <<>>, answers |-> <<>>, raised |-> FALSE,
             response |-> cached_data[1]]
       ELSE LET data == Body(answer)
            IN [cache |-> IF BodyTruthy(data) THEN CacheSet(c, cache_key, data, t, timeout)
                          ELSE c,
                reqs |-> <<req>>, answers |-> <<answer>>, raised |-> FALSE,
                response |-> data]

get_leagues(c, t, country, season, answer) ==
    CachedRequest(c, t, <<"football_leagues", country, season>>,
                  Request("/leagues", PyNone, season, PyNone, "", PyNone, PyNone, country),
                  answer, REFERENCE_TTL)

get_team_info(c, t, team_id, answer) ==
    CachedRequest(c, t, <<"football_team", team_id>>,
                  Request("/teams", PyNone, PyNone, PyNone, "", PyNone, team_id, ""),
                  answer, REFERENCE_TTL)

get_standings(c, t, league_id, season, answer) ==
    CachedRequest(c, t, <<"football_standings", league_id, season>>,
                  Request("/standings", league_id, season, PyNone, "", PyNone, PyNone, ""),
                  answer, STANDINGS_TTL)

\* `season or datetime.now().year`
SeasonOrYear(season, t) == IF season # PyNone /\ season # 0 THEN season ELSE NowYear(t)

get_todays_fixtures(c, t, league_id, season, name, down) ==
    LET today == NowDay(t)
        current_season == SeasonOrYear(season, t)
        cache_key == <<"football_today", league_id, current_season, today>>
        cached_data == CacheGet(c, cache_key, t)
    IN IF cached_data # <<>> /\ BodyTruthy(cached_data[1])
       THEN [cache |-> c, reqs |-> <<>>, answers |-> <<>>, raised |-> FALSE,
             response |-> cached_data[1]]
       ELSE LET data == get_fixtures(name, down, league_id, today)
            IN [cache |-> IF BodyTruthy(data) THEN CacheSet(c, cache_key, data, t, MATCHES_TTL)
                          ELSE c,
                reqs |-> <<FixturesRequest(league_id, current_season, today, "")>>,
                answers |-> <<data.kind>>, raised |-> FALSE, response |-> data]

PREMIER_LEAGUE_ID == 39

get_premier_league_fixtures(c, t, season, date, next_matches, name, down) ==
    LET current_season == SeasonOrYear(season, t)
    IN IF next_matches # PyNone /\ next_matches # 0
       THEN LET data == get_fixtures(name, down, PREMIER_LEAGUE_ID, NowDay(t))
            IN [cache |-> c,
                reqs |-> <<Request("/fixtures", PREMIER_LEAGUE_ID, current_season, PyNone,
                                   "", next_matches, PyNone, "")>>,
                answers |-> <<data.kind>>, raised |-> FALSE, response |-> data]
       ELSE IF date # PyNone
       THEN LET data == get_fixtures(name, down, PREMIER_LEAGUE_ID, date)
            IN [cache |-> c,
                reqs |-> <<FixturesRequest(PREMIER_LEAGUE_ID, current_season, date, "")>>,
                answers |-> <<data.kind>>, raised |-> FALSE, response |-> data]
       ELSE get_todays_fixtures(c, t, PREMIER_LEAGUE_ID, PyNone, name, down)

---------------------------------------------------------------------------
(* PremierLeagueAPI.get_upcoming_matches (premier_league_api.py).  A       *)
(* schedule is a sequence of [key, matches]: the dict's date keys in       *)
(* insertion order, each with its list of raw matches.                     *)

\* a well-formed raw match: team 2 * id + 1 at home
PLMatch(id, date) ==
    [id |-> id, date |-> date, status |-> "ok", state |-> "pre", detail |-> "Scheduled",
     teams |-> "ok",
     list |-> <<[id |-> 2 * id, isHome |-> FALSE], [id |-> 2 * id + 1, isHome |-> TRUE]>>]

OkSchedule(days) == [kind |-> "ok", response |-> days]

\* the answer to GET /schedule?year=..&month=..
FeedSchedule(name, year, month) ==
    CASE name = "empty" -> OkSchedule(<<>>)
      [] name = "partial" /\ month # 7 -> Absent
      [] name = "malformed" /\ month # 7 ->
            OkSchedule(<<[key |-> 1,
                          matches |-> <<[PLMatch(1, StampCode(1, 1)) EXCEPT !.teams = "null"],
                                        PLMatch(2, GarbageStr),
                                        [PLMatch(3, StampCode(1, 0)) EXCEPT
                                            !.list = <<[id |-> 6, isHome |-> TRUE],
                                                       [id |-> 7, isHome |-> TRUE]>>]>>]>>)
      [] name = "late" /\ month # 7 ->
            OkSchedule(<<[key |-> LastDay, matches |-> <<PLMatch(1, StampCode(LastDay, 0))>>],
                         [key |-> 1, matches |-> <<[PLMatch(2, StampCode(1, 0)) EXCEPT
                                                       !.status = "null"]>>]>>)
      [] month = 7 ->
            OkSchedule(<<[key |-> 0, matches |-> <<PLMatch(1, StampCode(0, 2)),
                                                   PLMatch(2, StampCode(0, 0))>>]>>)
      [] OTHER ->
            OkSchedule(<<[key |-> 1,
                          matches |-> <<PLMatch(3, StampCode(1, 2)),
                                        [PLMatch(4, StampCode(1, 0)) EXCEPT
                                            !.state = "post", !.detail = "FT"],
                                        PLMatch(5, StampCode(1, 1)),
                                        PLMatch(7, StampCode(1, 0))>>],
                         [key |-> 2, matches |-> <<PLMatch(6, StampCode(2, 0))>>]>>)

\* seconds from 00:00 of day 0: datetime.now(), and a kickoff read as a naive time
NowSecond(t) == StartSecond + t
KickSecond(code) ==
    StampDay(code) * DaySeconds + SlotHour(StampSlot(code)) * 3600
        + SlotMinute(StampSlot(code)) * 60

\* now.day and the month after now
NowDayOfMonth(t) == IF NowDay(t) = 0 THEN 31 ELSE NowDay(t)

\* schedule.update(next_schedule): a key already present keeps its place
RECURSIVE DictUpdate(_, _)
DictUpdate(schedule, more) ==
    IF more = <<>> THEN schedule
    ELSE LET e == Head(more)
             merged == IF \E i \in 1..Len(schedule) : schedule[i].key = e.key
                       THEN [i \in 1..Len(schedule) |->
                                IF schedule[i].key = e.key THEN e ELSE schedule[i]]
                       ELSE Append(schedule, e)
         IN DictUpdate(merged, Tail(more))

RECURSIVE Flatten(_)
Flatten(schedule) ==
    IF schedule = <<>> THEN <<>> ELSE Head(schedule).matches \o Flatten(Tail(schedule))

\* the uncaught exceptions of _filter_upcoming_matches: .get on a null
\* status, .replace on a date that is no string
FilterRaises(match) ==
    \/ match.status = "null"
    \/ (match.state # "post" /\ match.detail # "FT" /\ match.date = NonStr)

\* whether the loop of _filter_upcoming_matches keeps the match
Upcoming(match, t, days_ahead) ==
    /\ ~(match.state = "post" \/ match.detail = "FT")
    /\ IsStamp(match.date)
    /\ ~(KickSecond(match.date) < NowSecond(t))
    /\ ~(KickSecond(match.date) > NowSecond(t) + days_ahead * DaySeconds)

RECURSIVE FormatUpcoming(_, _, _)
FormatUpcoming(matches, t, days_ahead) ==
    IF matches = <<>> THEN <<>>
    ELSE (IF Upcoming(Head(matches), t, days_ahead) THEN _format_match(Head(matches))
          ELSE <<>>)
         \o FormatUpcoming(Tail(matches), t, days_ahead)

\* _filter_upcoming_matches: [raised, matches]
_filter_upcoming_matches(schedule, t, days_ahead) ==
    LET all == Flatten(schedule)
    IN IF \E i \in 1..Len(all) : FilterRaises(all[i])
       THEN [raised |-> TRUE, matches |-> <<>>]
       ELSE [raised |-> FALSE,
             matches |-> SortByKickoff(FormatUpcoming(all, t, days_ahead))]

FETCH_FAILED == "Failed to fetch data"

\* self._make_request("/schedule", {"year": year, "month": month})
ScheduleRequest(year, month) == [endpoint |-> "/schedule", year |-> year, month |-> month]

UpcomingKey(year, month, days_ahead) == <<"pl_upcoming", year, month, days_ahead>>

\* down1, down2: the request for this month, for the next month, fails
get_upcoming_matches(c, t, days_ahead, name, down1, down2) ==
    LET year == NowYear(t)
        month == NowMonth(t)
        cache_key == UpcomingKey(year, month, days_ahead)
        cached == CacheGet(c, cache_key, t)
        req == ScheduleRequest(year, month)
        data == IF down1 THEN Absent ELSE FeedSchedule(name, year, month)
    IN IF cached # <<>>
       THEN [cache |-> c, reqs |-> <<>>, answers |-> <<>>, raised |-> FALSE,
             response |-> cached[1]]
       ELSE IF data.kind = "absent"
       THEN [cache |-> c, reqs |-> <<req>>, answers |-> <<"absent">>, raised |-> FALSE,
             response |-> [kind |-> "error", error |-> FETCH_FAILED, count |-> 0,
                           matches |-> <<>>]]
       ELSE LET near_end == NowDayOfMonth(t) > 20
                next_month == IF month < 12 THEN month + 1 ELSE 1
                next_year == IF month < 12 THEN year ELSE year + 1
                next_req == ScheduleRequest(next_year, next_month)
                next_data == IF down2 THEN Absent ELSE FeedSchedule(name, next_year, next_month)
                schedule == IF near_end /\ next_data.kind = "ok"
                            THEN DictUpdate(data.response, next_data.response)
                            ELSE data.response
                reqs == IF near_end THEN <<req, next_req>> ELSE <<req>>
                answers == IF near_end THEN <<data.kind, next_data.kind>> ELSE <<data.kind>>
                f == _filter_upcoming_matches(schedule, t, days_ahead)
                result == [kind |-> "ok", error |-> "", count |-> Len(f.matches),
                           matches |-> f.matches]
            IN IF f.raised
               THEN [cache |-> c, reqs |-> reqs, answers |-> answers, raised |-> TRUE,
                     response |-> result]
               ELSE [cache |-> CacheSet(c, cache_key, result, t, MATCHES_TTL),
                     reqs |-> reqs, answers |-> answers, raised |-> FALSE,
                     response |-> result]

---------------------------------------------------------------------------
(* The state machine of the upstream clients: SpecClients.  last records   *)
(* the last call: [op, season, date, days_ahead, at, reqs, answers,        *)
(* raised, response], season being the caller's (PyNone when not given).   *)

AnswerKinds == {"absent", "empty", "ok"}
SeasonInputs == {PyNone, StartYear}

ClientRecord(op, season, date, days_ahead, r) ==
    [op |-> op, season |-> season, date |-> date, days_ahead |-> days_ahead, at |-> now,
     reqs |-> r.reqs, answers |-> r.answers, raised |-> r.raised, response |-> r.response]

ClientCall(op, season, date, days_ahead, r) ==
    /\ calls < MaxCalls
    /\ cache' = r.cache
    /\ last' = ClientRecord(op, season, date, days_ahead, r)
    /\ calls' = calls + 1
    /\ UNCHANGED <<now, feed, ticks, others>>

GetLeagues ==
    \E country \in {"", "England"}, season \in SeasonInputs, answer \in AnswerKinds :
        ClientCall("get_leagues", season, PyNone, 0,
                   get_leagues(cache, now, country, season, answer))

GetTeamInfo ==
    \E team_id \in {33}, answer \in AnswerKinds :
        ClientCall("get_team_info", PyNone, PyNone, 0,
                   get_team_info(cache, now, team_id, answer))

GetStandings ==
    \E season \in {StartYear - 1, StartYear}, answer \in AnswerKinds :
        ClientCall("get_standings", season, PyNone, 0,
                   get_standings(cache, now, PREMIER_LEAGUE_ID, season, answer))

GetTodaysFixtures ==
    \E league_id \in {PyNone, 39}, season \in SeasonInputs, down \in BOOLEAN :
        ClientCall("get_todays_fixtures", season, PyNone, 0,
                   get_todays_fixtures(cache, now, league_id, season, feed, down))

GetPremierLeagueFixtures ==
    \E season \in SeasonInputs, date \in {PyNone, 1}, next_matches \in {PyNone, 5},
       down \in BOOLEAN :
        ClientCall("get_premier_league_fixtures", season, date, 0,
                   get_premier_league_fixtures(cache, now, season, date, next_matches,
                                               feed, down))

GetUpcomingMatches ==
    \E days_ahead \in 1..MaxDaysAhead, down1 \in BOOLEAN, down2 \in BOOLEAN :
        ClientCall("get_upcoming_matches", PyNone, PyNone, days_ahead,
                   get_upcoming_matches(cache, now, days_ahead, feed, down1, down2))

NextClients ==
    \/ GetLeagues \/ GetTeamInfo \/ GetStandings \/ GetTodaysFixtures
    \/ GetPremierLeagueFixtures \/ GetUpcomingMatches \/ Tick

SpecClients == Init /\ [][NextClients]_vars

---------------------------------------------------------------------------
(* The cached lookups of StreamingAvailabilityAPI.get_show_by_id and       *)
(* MovieRecommenderAPI.search_movies: SpecCatalog.  A query is a sequence  *)
(* of characters.  The upstream answers a request with a body that echoes  *)
(* the request's endpoint and parameters, or not at all.                   *)

NoBody == [kind |-> "none"]

\* the JSON body the upstream returns for a request: it depends on every
\* parameter of the request
BodyFor(endpoint, params) == [kind |-> "body", endpoint |-> endpoint, params |-> params]

\* one character of query.lower().replace(' ', '_')
KeyChar(ch) ==
    CASE ch = "A" -> "a"
      [] ch = " " -> "_"
      [] OTHER -> ch

\* cache_key = f"movie_rec_{query.lower().replace(' ', '_')}"
MovieKey(query) == <<"movie_rec", [i \in DOMAIN query |-> KeyChar(query[i])]>>

\* cache_key = f"show_detail_{show_id}_{country}_{series_granularity}"
ShowKey(show_id, country, series_granularity) ==
    <<"show_detail", show_id, country, series_granularity>>

SHOW_DETAIL_TTL == 60 * 60
MOVIE_REC_TTL == 60 * 60 * 6

\* `cached_data = cache.get(cache_key)`, `if cached_data: return cached_data`,
\* else the request, stored when it returned a body
CachedLookup(c, t, cache_key, endpoint, params, timeout, down) ==
    LET cached_data == CacheGet(c, cache_key, t)
        data == IF down THEN NoBody ELSE BodyFor(endpoint, params)
    IN IF cached_data # <<>>
       THEN [cache |-> c, reqs |-> <<>>, response |-> cached_data[1]]
       ELSE [cache |-> IF data.kind = "body" THEN CacheSet(c, cache_key, data, t, timeout)
                       ELSE c,
             reqs |-> <<[endpoint |-> endpoint, params |-> params]>>,
             response |-> data]

get_show_by_id(c, t, show_id, country, series_granularity, output_language, down) ==
    CachedLookup(c, t, ShowKey(show_id, country, series_granularity),
                 <<"/shows", show_id>>,
                 [country |-> country, series_granularity |-> series_granularity,
                  output_language |-> output_language],
                 SHOW_DETAIL_TTL, down)

search_movies(c, t, query, down) ==
    CachedLookup(c, t, MovieKey(query), <<"/api/search">>, [q |-> query],
                 MOVIE_REC_TTL, down)

\* longest query of the model, in characters
MaxQueryLen == 2

QueryChars == {"A", "a", " ", "_"}
QueryInputs == UNION {[1..n -> QueryChars] : n \in 1..MaxQueryLen}

InitCatalog ==
    /\ cache = EmptyCache
    /\ now = 0
    /\ feed = "empty"
    /\ last = [op |-> "none"]
    /\ calls = 0
    /\ ticks = 0
    /\ OthersIdle

GetShowById ==
    /\ calls < MaxCalls
    /\ \E show_id \in {"tt10919420"}, country \in {"us", "se"},
          series_granularity \in {"show", "episode"}, output_language \in {"en", "es"},
          down \in BOOLEAN :
        \E r \in {get_show_by_id(cache, now, show_id, country, series_granularity,
                                 output_language, down)} :
           /\ cache' = r.cache
           /\ last' = [op |-> "get_show_by_id", endpoint |-> <<"/shows", show_id>>,
                       params |-> [country |-> country,
                                   series_granularity |-> series_granularity,
                                   output_language |-> output_language],
                       reqs |-> r.reqs, response |-> r.response]
           /\ calls' = calls + 1
           /\ UNCHANGED <<now, feed, ticks, others>>

SearchMovies ==
    /\ calls < MaxCalls
    /\ \E query \in QueryInputs, down \in BOOLEAN :
        \E r \in {search_movies(cache, now, query, down)} :
           /\ cache' = r.cache
           /\ last' = [op |-> "search_movies", endpoint |-> <<"/api/search">>,
                       params |-> [q |-> query], reqs |-> r.reqs, response |-> r.response]
           /\ calls' = calls + 1
           /\ UNCHANGED <<now, feed, ticks, others>>

NextCatalog == GetShowById \/ SearchMovies \/ Tick

SpecCatalog == InitCatalog /\ [][NextCatalog]_vars

---------------------------------------------------------------------------
(* Two matchesForDate calls in flight at once: SpecConcurrent.  Each call  *)
(* runs _fetch_matches_for_date in a thread of its own; its matches list   *)
(* and its league_matches are local to the call, cache.get and cache.set   *)
(* are the steps at which the calls meet.  procs[p] is the call of thread  *)
(* p: pc is its place in the loop, idx the league it is at, parts the      *)
(* lists it has gathered league by league, src where each came from (the   *)
(* upstream answer it received, or "cache").                               *)

Threads == {1, 2}

\* the upstream's fixtures as they stand before and after the provider
\* updates its schedule, which it does at most once while the calls run
AnswerFeeds == {"clean", "mixed"}

ConcurrentDate == 0

StartCall(league) ==
    [league |-> league,
     league_ids |-> IF LeagueTruthy(league) THEN <<LEAGUE_IDS[league]>> ELSE LeagueIdList,
     pc |-> "read", idx |-> 1, src |-> <<>>, parts |-> <<>>, league_matches |-> <<>>,
     raised |-> FALSE, matches |-> <<>>]

\* the end of one pass of `for league_id in league_ids`: part is what the
\* pass added to matches
NextLeague(call, part) ==
    [call EXCEPT !.parts = Append(@, part),
                 !.league_matches = <<>>,
                 !.idx = @ + 1,
                 !.pc = IF call.idx = Len(call.league_ids) THEN "sort" ELSE "read"]

RECURSIVE Concat(_)
Concat(parts) == IF parts = <<>> THEN <<>> ELSE Head(parts) \o Concat(Tail(parts))

InitConcurrent ==
    /\ cache = EmptyCache
    /\ now = 0
    /\ feed = "clean"
    /\ last = NoCall
    /\ calls = 0
    /\ ticks = 0
    /\ \E league \in {NoLeague, "premier_league", "bundesliga"} :
          procs = [p \in Threads |-> StartCall(league)]
    /\ heap = <<>>
    /\ db = <<>>

\* cached = cache.get(cache_key); if cached: matches.extend(cached); continue
CacheRead(p) ==
    LET call == procs[p]
        cached == CacheGet(cache, MatchesKey(call.league_ids[call.idx], ConcurrentDate), now)
    IN /\ call.pc = "read"
       /\ procs' = [procs EXCEPT ![p] =
                       IF ListTruthy(cached)
                       THEN NextLeague([call EXCEPT !.src = Append(@, "cache")],
                                       cached[1])
                       ELSE [call EXCEPT !.pc = "fetch"]]
       /\ UNCHANGED <<cache, now, feed, last, calls, ticks, heap, db>>

\* response = self.football_api.get_fixtures(..) and the enrichment of its
\* fixtures into league_matches
UpstreamFetch(p) ==
    LET call == procs[p]
        response == get_fixtures(feed, FALSE, call.league_ids[call.idx], ConcurrentDate)
    IN /\ call.pc = "fetch"
       /\ procs' = [procs EXCEPT ![p] =
                       IF response.kind = "ok"
                       THEN [call EXCEPT !.src = Append(@, feed),
                                         !.league_matches = EnrichAll(response.response),
                                         !.pc = "write"]
                       ELSE NextLeague([call EXCEPT !.src = Append(@, feed)], <<>>)]
       /\ UNCHANGED <<cache, now, feed, last, calls, ticks, heap, db>>

\* cache.set(cache_key, league_matches, 60 * 60); matches.extend(league_matches)
CacheWrite(p) ==
    LET call == procs[p]
    IN /\ call.pc = "write"
       /\ cache' = CacheSet(cache, MatchesKey(call.league_ids[call.idx], ConcurrentDate),
                            call.league_matches, now, MATCHES_TTL)
       /\ procs' = [procs EXCEPT ![p] = NextLeague(call, call.league_matches)]
       /\ UNCHANGED <<now, feed, last, calls, ticks, heap, db>>

\* matches.sort(..); return matches
SortAndReturn(p) ==
    LET call == procs[p]
        gathered == Concat(call.parts)
    IN /\ call.pc = "sort"
       /\ procs' = [procs EXCEPT ![p] =
                       IF SortRaises(gathered)
                       THEN [call EXCEPT !.pc = "done", !.raised = TRUE]
                       ELSE [call EXCEPT !.pc = "done",
                                         !.matches = SortByKickoff(gathered)]]
       /\ UNCHANGED <<cache, now, feed, last, calls, ticks, heap, db>>

\* the provider updates its schedule
ScheduleUpdate ==
    /\ feed = "clean"
    /\ feed' = "mixed"
    /\ UNCHANGED <<cache, now, last, calls, ticks, procs, heap, db>>

NextConcurrent ==
    \/ \E p \in Threads :
          CacheRead(p) \/ UpstreamFetch(p) \/ CacheWrite(p) \/ SortAndReturn(p)
    \/ ScheduleUpdate

SpecConcurrent == InitConcurrent /\ [][NextConcurrent]_vars

---------------------------------------------------------------------------
(* The static tables as objects: SpecTables.  heap.objs is the sequence of *)
(* the list and dict objects of the process, an object's reference is its  *)
(* index; heap.held is the set of references the callers hold.  The first  *)
(* objects are the lists of BROADCAST_MAPPINGS and the dicts of            *)
(* LEAGUE_NAMES, in the order of the leagues, and the dict LEAGUE_IDS.      *)

List(val) == [kind |-> "list", val |-> val]
Dict(val) == [kind |-> "dict", val |-> val]

\* the reference of BROADCAST_MAPPINGS[league_id], of LEAGUE_NAMES[league_id]
\* and of LEAGUE_IDS
ChannelsObj(league_id) == CHOOSE i \in 1..Len(LeagueIdList) : LeagueIdList[i] = league_id
NamesObj(league_id) == Len(LeagueIdList) + ChannelsObj(league_id)
IdsObj == 2 * Len(LeagueIdList) + 1

TableObjects ==
    [i \in 1..IdsObj |->
        IF i <= Len(LeagueIdList) THEN List(BROADCAST_MAPPINGS[LeagueIdList[i]])
        ELSE IF i < IdsObj THEN Dict(LEAGUE_NAMES[LeagueIdList[i - Len(LeagueIdList)]])
        ELSE Dict(LEAGUE_IDS)]

\* a new object: [objs, ref]
Allocate(objs, obj) == [objs |-> Append(objs, obj), ref |-> Len(objs) + 1]

\* handing out the list of the table itself
channels_shared(objs, channels) == [objs |-> objs, ref |-> channels]

\* channels.copy()
channels_copy(objs, channels) == Allocate(objs, objs[channels])

\* BroadcastService.get_broadcast_channels on the heap
get_broadcast_channels_ref(objs, league_id) ==
    IF league_id \in LeagueIdSet /\ Len(objs[ChannelsObj(league_id)].val) > 0
    THEN channels_copy(objs, ChannelsObj(league_id))
    ELSE Allocate(objs, List(<<UNAVAILABLE_MESSAGE>>))

\* objects handed out in one behaviour
MaxHandedOut == 2
\* longest list a caller builds
MaxListLen == 4

InitTables ==
    /\ cache = EmptyCache
    /\ now = 0
    /\ feed = "empty"
    /\ last = [op |-> "none"]
    /\ calls = 0
    /\ ticks = 0
    /\ procs = <<>>
    /\ heap = [objs |-> TableObjects, held |-> {}]
    /\ db = <<>>

GetBroadcastChannels ==
    /\ Len(heap.objs) < IdsObj + MaxHandedOut
    /\ \E league_id \in BroadcastInputs :
          LET r == get_broadcast_channels_ref(heap.objs, league_id)
          IN /\ heap' = [objs |-> r.objs, held |-> heap.held \cup {r.ref}]
             /\ last' = [op |-> "get_broadcast_channels", input |-> league_id,
                         ref |-> r.ref, output |-> r.objs[r.ref].val]
    /\ UNCHANGED <<cache, now, feed, calls, ticks, procs, db>>

\* _enrich_match_data hands out a match whose 'league' is a new dict filled
\* from LEAGUE_NAMES and whose 'broadcast_channels' is the list it got
EnrichHandsOut ==
    /\ Len(heap.objs) + 1 < IdsObj + MaxHandedOut
    /\ \E league_id \in LeagueIdSet :
          LET r == get_broadcast_channels_ref(heap.objs, league_id)
              league_info == r.objs[NamesObj(league_id)].val
              m == Allocate(r.objs, Dict([name |-> league_info.name,
                                          country |-> league_info.country]))
          IN /\ heap' = [objs |-> m.objs, held |-> heap.held \cup {r.ref, m.ref}]
             /\ last' = [op |-> "enrich", input |-> league_id, ref |-> r.ref,
                         output |-> m.objs[r.ref].val]
    /\ UNCHANGED <<cache, now, feed, calls, ticks, procs, db>>

\* a caller changes an object it holds: list.append, list.clear, d['name'] = ..
CallerModifies ==
    /\ \E ref \in heap.held :
          LET obj == heap.objs[ref]
          IN \/ /\ obj.kind = "list"
                /\ Len(obj.val) < MaxListLen
                /\ heap' = [heap EXCEPT !.objs[ref].val = Append(@, "Pirate TV")]
             \/ /\ obj.kind = "list"
                /\ obj.val # <<>>
                /\ heap' = [heap EXCEPT !.objs[ref].val = <<>>]
             \/ /\ obj.kind = "dict"
                /\ obj.val.name # "Renamed"
                /\ heap' = [heap EXCEPT !.objs[ref].val.name = "Renamed"]
    /\ UNCHANGED <<cache, now, feed, last, calls, ticks, procs, db>>

NextTables == GetBroadcastChannels \/ EnrichHandsOut \/ CallerModifies

SpecTables == InitTables /\ [][NextTables]_vars

---------------------------------------------------------------------------
(* The responses that carry a count: SpecResponses, the aggregation        *)
(* service, PremierLeagueAPI.get_upcoming_matches and                      *)
(* FootballAPI.get_live_matches with the 'results' field of its answer,    *)
(* called one after the other within the same minute.                      *)

\* lines 211-217 of get_live_matches with `all_live['results'] = ..` left out
live_results_stale(all_live, league_id) ==
    [kind |-> all_live.kind, results |-> Len(all_live.response),
     response |-> IF league_id # PyNone /\ league_id # 0 /\ all_live.kind = "ok"
                  THEN FilterLeague(all_live.response, league_id)
                  ELSE all_live.response]

\* lines 211-219 of get_live_matches: the upstream's answer, whose 'results'
\* counts its 'response', filtered in place when a league id is given
live_results(all_live, league_id) ==
    IF league_id # PyNone /\ league_id # 0 /\ all_live.kind = "ok"
    THEN LET filtered_response == FilterLeague(all_live.response, league_id)
         IN [kind |-> "ok", results |-> Len(filtered_response),
             response |-> filtered_response]
    ELSE [kind |-> all_live.kind, results |-> Len(all_live.response),
          response |-> all_live.response]

LiveFixtures ==
    /\ calls < MaxCalls
    /\ \E league_id \in {PyNone, 0, 39, 140, 999}, down \in BOOLEAN :
          LET all_live == IF down THEN Absent ELSE FeedLive(feed, NowDay(now))
              raised == league_id # PyNone /\ league_id # 0 /\ LiveFilterRaises(all_live)
          IN last' = [op |-> "FootballAPI.get_live_matches", league_id |-> league_id,
                      down |-> down, at |-> now, raised |-> raised,
                      reqs |-> <<FixturesRequest(PyNone, PyNone, PyNone, "all")>>,
                      response |-> IF raised THEN Absent
                                   ELSE live_results(all_live, league_id)]
    /\ calls' = calls + 1
    /\ UNCHANGED <<cache, now, feed, ticks, others>>

NextResponses ==
    \/ MatchesForDate
    \/ MatchesForRange
    \/ LiveMatches
    \/ GetUpcomingMatches
    \/ LiveFixtures

SpecResponses == Init /\ [][NextResponses]_vars

---------------------------------------------------------------------------
(* The watchlist endpoints (preferences/views.py): SpecWatchlist.  db is   *)
(* the database: items maps the primary keys of the WatchlistItem rows to  *)
(* [user, creator, movie, priority], creator being the user whose request  *)
(* created the row, next_id is the next primary key, and password maps the *)
(* users to their passwords.  last is the last request:                    *)
(* [op, user, pk, status, returned].                                       *)

Users == {"alice", "bob"}
\* a request that carries no credentials: IsAuthenticated refuses it (401
\* stands for the refusal, which is 401 or 403 by the authentication class)
Anonymous == "anonymous"

\* rows created in one behaviour
MaxItems == 3
\* shortest password validate_password accepts, longest password of a request
MinPasswordLen == 2
MaxPasswordLen == 3

\* the writable fields of WatchlistItemSerializer that the model keeps
ItemData == [movie : {1, 2}, priority : {0, 1}]

NoItems == [pk \in {} |-> <<>>]

\* a queryset that is not narrowed to the user of the request
get_queryset_all(d, user) == DOMAIN d.items

\* WatchlistItem.objects.filter(user=self.request.user)
get_queryset(d, user) == {pk \in DOMAIN d.items : d.items[pk].user = user}

\* unique_together ['user', 'movie']: another row of the user holds the movie
IntegrityError(d, user, movie, pk) ==
    \E other \in DOMAIN d.items \ {pk} :
        d.items[other].user = user /\ d.items[other].movie = movie

\* the response of a request and the database after it
Respond(op, user, pk, status, returned, d) ==
    /\ last' = [op |-> op, user |-> user, pk |-> pk, status |-> status,
                returned |-> returned]
    /\ db' = d
    /\ UNCHANGED <<cache, now, feed, calls, ticks, procs, heap>>

\* GET watchlist/
WatchlistList ==
    \E user \in Users \cup {Anonymous} :
        IF user = Anonymous THEN Respond("list", user, 0, 401, {}, db)
        ELSE Respond("list", user, 0, 200,
                     {db.items[pk] : pk \in get_queryset(db, user)}, db)

\* POST watchlist/: serializer.save(user=self.request.user)
WatchlistCreate ==
    /\ db.next_id <= MaxItems
    /\ \E user \in Users \cup {Anonymous}, data \in ItemData :
        IF user = Anonymous THEN Respond("create", user, 0, 401, {}, db)
        ELSE IF IntegrityError(db, user, data.movie, 0)
        THEN Respond("create", user, 0, 500, {}, db)
        ELSE LET item == [user |-> user, creator |-> user, movie |-> data.movie,
                          priority |-> data.priority]
             IN Respond("create", user, db.next_id, 201, {item},
                        [db EXCEPT !.items = [pk \in DOMAIN db.items \cup {db.next_id} |->
                                                 IF pk = db.next_id THEN item
                                                 ELSE db.items[pk]],
                                   !.next_id = @ + 1])

\* GET watchlist/<pk>/: get_object looks the row up in get_queryset()
WatchlistRetrieve ==
    \E user \in Users \cup {Anonymous}, pk \in 1..MaxItems :
        IF user = Anonymous THEN Respond("retrieve", user, pk, 401, {}, db)
        ELSE IF pk \notin get_queryset(db, user)
        THEN Respond("retrieve", user, pk, 404, {}, db)
        ELSE Respond("retrieve", user, pk, 200, {db.items[pk]}, db)

\* PUT or PATCH watchlist/<pk>/
WatchlistUpdate ==
    \E user \in Users \cup {Anonymous}, pk \in 1..MaxItems, data \in ItemData :
        IF user = Anonymous THEN Respond("update", user, pk, 401, {}, db)
        ELSE IF pk \notin get_queryset(db, user)
        THEN Respond("update", user, pk, 404, {}, db)
        ELSE IF IntegrityError(db, db.items[pk].user, data.movie, pk)
        THEN Respond("update", user, pk, 500, {}, db)
        ELSE LET item == [db.items[pk] EXCEPT !.movie = data.movie,
                                              !.priority = data.priority]
             IN Respond("update", user, pk, 200, {item},
                        [db EXCEPT !.items[pk] = item])

\* DELETE watchlist/<pk>/
WatchlistDestroy ==
    \E user \in Users \cup {Anonymous}, pk \in 1..MaxItems :
        IF user = Anonymous THEN Respond("destroy", user, pk, 401, {}, db)
        ELSE IF pk \notin get_queryset(db, user)
        THEN Respond("destroy", user, pk, 404, {}, db)
        ELSE Respond("destroy", user, pk, 204, {},
                     [db EXCEPT !.items = [p \in DOMAIN db.items \ {pk} |-> db.items[p]]])

InitAccounts ==
    /\ cache = EmptyCache
    /\ now = 0
    /\ feed = "empty"
    /\ last = [op |-> "none"]
    /\ calls = 0
    /\ ticks = 0
    /\ procs = <<>>
    /\ heap = <<>>
    /\ db = [items |-> NoItems, next_id |-> 1,
             password |-> [user \in Users |-> [i \in 1..MinPasswordLen |-> "a"]]]

NextWatchlist ==
    \/ WatchlistList
    \/ WatchlistCreate
    \/ WatchlistRetrieve
    \/ WatchlistUpdate
    \/ WatchlistDestroy

SpecWatchlist == InitAccounts /\ [][NextWatchlist]_vars

---------------------------------------------------------------------------
(* ChangePasswordView (users/views.py): SpecPassword.  A password is a     *)
(* sequence of characters; db.password holds the password whose hash the   *)
(* user row stores, so that check_password is equality.                    *)

PasswordInputs == UNION {[1..n -> {"a", " "}] : n \in 0..MaxPasswordLen}

\* str.strip() of the leading and of the trailing blanks
RECURSIVE LStrip(_)
LStrip(s) == IF s # <<>> /\ Head(s) = " " THEN LStrip(Tail(s)) ELSE s

RECURSIVE RStrip(_)
RStrip(s) == IF s # <<>> /\ s[Len(s)] = " " THEN RStrip(SubSeq(s, 1, Len(s) - 1)) ELSE s

\* serializers.CharField(required=True): [valid, value].  The field strips
\* the value (trim_whitespace is on by default) and rejects a blank one
CharField(data) ==
    LET value == RStrip(LStrip(data))
    IN [valid |-> value # <<>>, value |-> value]

\* validate_password, of which the model keeps the minimum length
validate_password(password) == Len(password) >= MinPasswordLen

\* ChangePasswordSerializer: is_valid() and the serializer.data it yields
ChangePasswordSerializer(old_password, new_password) ==
    LET old == CharField(old_password)
        new == CharField(new_password)
    IN [is_valid |-> old.valid /\ new.valid /\ validate_password(new.value),
        data |-> [old_password |-> old.value, new_password |-> new.value]]

\* a view that changes the password without the check of the old one
ChangePasswordView_unchecked(d, user, old_password, new_password) ==
    LET serializer == ChangePasswordSerializer(old_password, new_password)
    IN IF serializer.is_valid
       THEN [status |-> 200,
             db |-> [d EXCEPT !.password[user] = serializer.data.new_password]]
       ELSE [status |-> 400, db |-> d]

\* ChangePasswordView.update: [status, db]
ChangePasswordView_update(d, user, old_password, new_password) ==
    LET serializer == ChangePasswordSerializer(old_password, new_password)
    IN IF serializer.is_valid
       THEN IF d.password[user] # serializer.data.old_password
            THEN [status |-> 400, db |-> d]
            ELSE [status |-> 200,
                  db |-> [d EXCEPT !.password[user] = serializer.data.new_password]]
       ELSE [status |-> 400, db |-> d]

\* PUT or PATCH change-password/
ChangePassword ==
    \E user \in Users \cup {Anonymous}, old_password \in PasswordInputs,
       new_password \in PasswordInputs :
        LET r == IF user = Anonymous THEN [status |-> 401, db |-> db]
                 ELSE ChangePasswordView_update(db, user, old_password, new_password)
        IN /\ last' = [op |-> "change_password", user |-> user,
                       old_password |-> old_password, new_password |-> new_password,
                       status |-> r.status]
           /\ db' = r.db
           /\ UNCHANGED <<cache, now, feed, calls, ticks, procs, heap>>

SpecPassword == InitAccounts /\ [][ChangePassword]_vars

---------------------------------------------------------------------------
(* Properties of Top5LeaguesService, checked under Spec *)

IsCall(op) == calls' = calls + 1 /\ last'.op = op

\* the leagues a matchesForDate call with this filter covers
Selects(league, league_id) ==
    IF LeagueTruthy(league) THEN league \in LeagueKeys /\ LEAGUE_IDS[league] = league_id
    ELSE league_id \in LeagueIdSet

Contains(ms, m) == \E i \in 1..Len(ms) : ms[i] = m

RequestsFor(reqs, league_id) == {i \in 1..Len(reqs) : reqs[i].league = league_id}

\* C1: once matchesForDate has fetched and stored a league's fixtures for a
\* date, a later matchesForDate call for that league and date made before
\* the entry expires issues no upstream request for the league, whatever
\* the stored list holds, and returns the stored matches.
C1_StoredEntryShortCircuits ==
    [][\A league_id \in LeagueIdSet, date \in DateInputs :
          (/\ IsFresh(cache, MatchesKey(league_id, date), now)
           /\ IsCall("matchesForDate")
           /\ last'.date = date
           /\ Selects(last'.league, league_id)
           /\ ~last'.raised)
          => /\ RequestsFor(last'.reqs, league_id) = {}
             /\ \A i \in 1..Len(cache[MatchesKey(league_id, date)].val) :
                    Contains(last'.response.matches,
                             cache[MatchesKey(league_id, date)].val[i])]_vars

\* C2: get_matches with a league filter that is none of the five keys
\* returns an error object with a non-empty message and no matches, issues
\* no upstream request and leaves the cache as it was.
C2_InvalidLeagueRejected ==
    [][(/\ calls' = calls + 1
        /\ last'.op \in {"matchesForDate", "matchesForRange"}
        /\ LeagueTruthy(last'.league)
        /\ last'.league \notin LeagueKeys)
       => /\ ~last'.raised
          /\ last'.response.kind = "error"
          /\ last'.response.error # ""
          /\ last'.response.matches = <<>>
          /\ last'.reqs = <<>>
          /\ cache' = cache]_vars

\* C2's case: an invalid filter arrives when the cache holds entries
C2_Witness ==
    /\ last.op = "matchesForDate"
    /\ last.league = "esports"
    /\ last.response.kind = "error"
    /\ cache # EmptyCache

NonDecreasing(ms) ==
    \A i \in 1..Len(ms) :
        /\ ms[i].kickoff.utc # PyNone
        /\ i < Len(ms) => ms[i].kickoff.utc <= ms[i + 1].kickoff.utc

\* C3: the list matchesForRange returns is in non-decreasing order of
\* kickoff.utc over the whole list.
C3_RangeSorted ==
    (last.op = "matchesForRange" /\ last.response.kind = "ok" /\ ~last.raised)
    => NonDecreasing(last.response.matches)

\* a fixture with every field present and of the right type
WellFormed(f) ==
    /\ f.league > 0
    /\ f.fx = "ok" /\ f.id > 0 /\ IsStamp(f.date) /\ f.status \notin {"missing", "null"}
    /\ f.teams = "ok" /\ f.home > 0 /\ f.away > 0 /\ f.home # f.away
    /\ f.goals = "ok" /\ f.gh # Missing /\ f.ga # Missing

\* the upstream's answer to a request of the call rec records
AnswerOf(rec, req) ==
    IF rec.down THEN Absent ELSE FeedFixtures(feed, req.league, req.date)

\* C4: whatever malformed records an upstream list holds, matchesForDate
\* completes without raising and returns the enriched form of every
\* well-formed fixture of a configured league that upstream sent.
C4_MalformedRecordsOnlyDropThemselves ==
    (last.op = "matchesForDate" /\ last.response.kind = "ok")
    => /\ ~last.raised
       /\ \A i \in 1..Len(last.reqs) :
            LET fixtures == AnswerOf(last, last.reqs[i]).response
            IN \A j \in 1..Len(fixtures) :
                  (WellFormed(fixtures[j]) /\ fixtures[j].league \in LeagueIdSet)
                  => Contains(last.response.matches, _enrich_match_data(fixtures[j])[1])

\* C8: a liveMatches call that finds no cached result issues exactly one
\* upstream request.
C8_LiveFetchesOnce ==
    [][(IsCall("liveMatches") /\ ~IsFresh(cache, LiveKey, now))
       => Len(last'.reqs) = 1]_vars

\* C10: the list liveMatches returns is sorted ascending by kickoff.utc.
C10_LiveSorted ==
    (last.op = "liveMatches" /\ ~last.raised) => NonDecreasing(last.response.matches)

\* every neighbouring pair of the list is in order of kickoff.utc
SortedByKickoff(ms) ==
    \A i \in 1..(Len(ms) - 1) :
        /\ ms[i].kickoff.utc # PyNone
        /\ ms[i + 1].kickoff.utc # PyNone
        /\ ms[i].kickoff.utc <= ms[i + 1].kickoff.utc

C12_NoDuplicateFixture ==
    (last.op \in {"matchesForDate", "matchesForRange"} /\ last.response.kind = "ok")
    => \A i, j \in 1..Len(last.response.matches) :
          (i < j /\ last.response.matches[i].id # PyNone)
          => last.response.matches[i].id # last.response.matches[j].id

\* what a matchesForDate call has of a league: the list cached before the
\* call, else the enriched fixtures of upstream's answer, else nothing
LeagueSource(rec, league_id) ==
    LET cached == CacheGet(cache, MatchesKey(league_id, rec.date), rec.at)
        answer == IF rec.down THEN Absent ELSE FeedFixtures(feed, league_id, rec.date)
    IN IF ListTruthy(cached) THEN cached[1]
       ELSE IF answer.kind = "ok" THEN EnrichAll(answer.response)
       ELSE <<>>

\* C13: when the fetches of some leagues of one matchesForDate call fail and
\* those of others succeed, the call returns normally and its result holds
\* exactly the matches of the leagues that succeeded or were cached.
C13_PartialFailureKeepsSubset ==
    [][(/\ IsCall("matchesForDate")
        /\ last'.response.kind = "ok"
        /\ \E i \in 1..Len(last'.reqs) : AnswerOf(last', last'.reqs[i]).kind = "absent"
        /\ \E i \in 1..Len(last'.reqs) : AnswerOf(last', last'.reqs[i]).kind = "ok")
       => LET covered == {l \in LeagueIdSet : Selects(last'.league, l)}
              result == last'.response.matches
          IN /\ ~last'.raised
             /\ \A l \in covered :
                   \A i \in 1..Len(LeagueSource(last', l)) :
                       Contains(result, LeagueSource(last', l)[i])
             /\ \A i \in 1..Len(result) :
                   \E l \in covered : Contains(LeagueSource(last', l), result[i])]_vars

\* the per-league fetches of a call that finds nothing in the cache
FetchCount(rec) ==
    (IF LeagueTruthy(rec.league) THEN 1 ELSE Len(LeagueIdList))
        * (IF rec.op = "matchesForDate" THEN 1 ELSE rec.days_ahead)

\* C14: when every per-league fetch of an aggregation call fails and nothing
\* is cached, get_matches returns an empty matches list together with a
\* diagnostic message.
C14_AllFailedDiagnostic ==
    (/\ last.op \in {"matchesForDate", "matchesForRange"}
     /\ last.down
     /\ last.reqs # <<>>
     /\ Len(last.reqs) = FetchCount(last))
    => /\ ~last.raised
       /\ last.response.matches = <<>>
       /\ last.response.error # ""

\* C17: a matchesForDate call made more than an hour after a league's list
\* was stored, and a liveMatches call made more than 60 seconds after the
\* live result was stored, treats the entry as a miss and fetches from
\* upstream again.
C17_ExpiredEntryRefetched ==
    [][/\ IsCall("matchesForDate") =>
            \A league_id \in LeagueIdSet :
                LET key == MatchesKey(league_id, last'.date)
                IN (/\ Selects(last'.league, league_id)
                    /\ key \in DOMAIN cache
                    /\ now - cache[key].at > MATCHES_TTL)
                   => RequestsFor(last'.reqs, league_id) # {}
       /\ IsCall("liveMatches") =>
            ((LiveKey \in DOMAIN cache /\ now - cache[LiveKey].at > LIVE_TTL)
             => last'.reqs # <<>>)]_vars

\* C17's case: of the lists stored for a date at time 0, the call made an
\* hour and a minute later has fetched and stored league 39 again
C17_Witness ==
    /\ last.op = "matchesForDate"
    /\ last.league = "premier_league"
    /\ last.at = MATCHES_TTL + LIVE_TTL
    /\ RequestsFor(last.reqs, 39) # {}
    /\ MatchesKey(39, last.date) \in DOMAIN cache
    /\ cache[MatchesKey(39, last.date)].at = last.at
    /\ MatchesKey(140, last.date) \in DOMAIN cache
    /\ cache[MatchesKey(140, last.date)].at = 0

\* what C19 means for the service: every match of a returned list is of one
\* of the five configured leagues
OnlyConfiguredLeagues ==
    last.op \in {"matchesForDate", "matchesForRange", "liveMatches"}
    => \A i \in 1..Len(last.response.matches) :
          last.response.matches[i].league.id \in LeagueIdSet

\* every upstream fetch of the liveMatches call recorded in l returned Absent
LiveAllAbsent(l) ==
    l.op = "liveMatches" /\ Len(l.reqs) = Len(LeagueIdList) /\ (l.down \/ feed = "mixed")

\* C23: a liveMatches call whose upstream fetches all return Absent writes
\* nothing to the cache, and a liveMatches call that follows it within 60
\* seconds, with the upstream back, fetches again.
C23_FailedLiveNotCached ==
    [][/\ (calls' = calls + 1 /\ LiveAllAbsent(last')) => cache' = cache
       /\ (/\ LiveAllAbsent(last)
           /\ calls' = calls + 1
           /\ last'.op = "liveMatches"
           /\ ~last'.down
           /\ now - last.at < LIVE_TTL)
          => Len(last'.reqs) > 0]_vars

\* C26: within one matchesForDate call at most one upstream request is
\* issued per selected league, five without a filter and one with a filter,
\* whether the request succeeds or fails: a league that is not served from
\* the cache gets exactly one request, however the requests before it ended.
C26_OneRequestPerLeague ==
    [][IsCall("matchesForDate")
       => /\ Len(last'.reqs) <= (IF LeagueTruthy(last'.league) THEN 1 ELSE Len(LeagueIdList))
          /\ \A league_id \in LeagueIdSet :
                LET n == Cardinality(RequestsFor(last'.reqs, league_id))
                    cached == CacheGet(cache, MatchesKey(league_id, last'.date), now)
                IN /\ n <= 1
                   /\ (Selects(last'.league, league_id) /\ ~ListTruthy(cached)) => n = 1
                   /\ ~Selects(last'.league, league_id) => n = 0]_vars

\* C26's case: the requests of the second and third league fail, and the
\* requests of the fourth and fifth are still sent
C26_Witness ==
    /\ last.op = "matchesForDate"
    /\ feed = "partial" /\ ~last.down
    /\ ~LeagueTruthy(last.league)
    /\ Len(last.reqs) = Len(LeagueIdList)
    /\ Len(last.response.matches) = 2

---------------------------------------------------------------------------
(* Properties of the upstream clients, checked under SpecClients *)

EntryUnchanged(key) ==
    IF key \in DOMAIN cache THEN key \in DOMAIN cache' /\ cache'[key] = cache[key]
    ELSE key \notin DOMAIN cache'

CachedClientOps ==
    {"get_leagues", "get_todays_fixtures", "get_team_info", "get_standings",
     "get_upcoming_matches"}

\* C7: when an upstream fetch of a cached operation returns Absent, the
\* operation leaves the cache as it was: the entry of the league and date
\* for _fetch_matches_for_date, the whole store for the operations of
\* FootballAPI and for PremierLeagueAPI.get_upcoming_matches.
C7_NoCacheWriteOnAbsent ==
    [][calls' = calls + 1 =>
        /\ last'.op = "matchesForDate" =>
              \A i \in 1..Len(last'.reqs) :
                  AnswerOf(last', last'.reqs[i]).kind = "absent"
                  => EntryUnchanged(MatchesKey(last'.reqs[i].league, last'.reqs[i].date))
        /\ last'.op \in CachedClientOps =>
              ((\E i \in 1..Len(last'.answers) : last'.answers[i] = "absent")
               => cache' = cache)]_vars

\* C9: an upstream fixtures request whose season the caller did not supply
\* carries the season year - 1 before August and the year from August on.
C9_SeasonResolution ==
    (\/ last.op \in {"matchesForDate", "matchesForRange"}
     \/ (last.op \in {"get_todays_fixtures", "get_premier_league_fixtures"}
         /\ last.season = PyNone))
    => \A i \in 1..Len(last.reqs) :
          last.reqs[i].endpoint = "/fixtures"
          => last.reqs[i].season = SeasonOf(NowYear(last.at), NowMonth(last.at))

\* C15: every match get_upcoming_matches returns, computed or served from
\* the cache, is not completed and kicks off no earlier than the call and
\* no later than days_ahead days after it.
C15_UpcomingWithinWindow ==
    (last.op = "get_upcoming_matches" /\ ~last.raised)
    => \A i \in 1..Len(last.response.matches) :
          LET m == last.response.matches[i]
          IN /\ m.status # "FT"
             /\ IsStamp(m.kickoff.utc)
             /\ KickSecond(m.kickoff.utc) >= NowSecond(last.at)
             /\ KickSecond(m.kickoff.utc) <= NowSecond(last.at) + last.days_ahead * DaySeconds

---------------------------------------------------------------------------
(* Properties of the cached lookups, checked under SpecCatalog *)

\* C24: a cache hit returns a value that was fetched from the upstream with
\* the request parameters of the current call.
C24_HitServesSameRequest ==
    (/\ last.op \in {"get_show_by_id", "search_movies"}
     /\ last.reqs = <<>>
     /\ last.response.kind = "body")
    => /\ last.response.endpoint = last.endpoint
       /\ last.response.params = last.params

---------------------------------------------------------------------------
(* Properties of the concurrent calls, checked under SpecConcurrent *)

AnswerOk(name, league_id) ==
    get_fixtures(name, FALSE, league_id, ConcurrentDate).kind = "ok"

\* the complete enrichment of the answer the upstream gives under this name
CompleteList(name, league_id) ==
    EnrichAll(get_fixtures(name, FALSE, league_id, ConcurrentDate).response)

\* thread q received an answer with a response list for the league at place i
Received(q, i) ==
    /\ Len(procs[q].src) >= i
    /\ procs[q].src[i] \in AnswerFeeds
    /\ AnswerOk(procs[q].src[i], procs[q].league_ids[i])

\* what one call alone stores for the league when the upstream answers name
StoredAlone(name, league_id) ==
    FetchLeague([cache |-> EmptyCache, reqs |-> <<>>, matches |-> <<>>], league_id,
                ConcurrentDate, _get_current_season(now), now, name, FALSE).cache

\* C25: when two matchesForDate calls for the same league and date interleave
\* at their cache reads, upstream fetches and cache writes, what each call
\* gathers for a league is the complete enrichment of one upstream response
\* (its own, or the one the other call stored), the list it returns is the
\* sorted whole of what it gathered, every cache entry holds the complete
\* enriched list of one response a call received, and when the upstream
\* answered both calls alike that entry is the one a single call stores.
C25_ConcurrentCallsComplete ==
    /\ \A p \in Threads :
          LET call == procs[p]
          IN /\ \A i \in 1..Len(call.parts) :
                    IF call.src[i] = "cache"
                    THEN \E q \in Threads \ {p} :
                            /\ Received(q, i)
                            /\ call.parts[i] = CompleteList(procs[q].src[i], call.league_ids[i])
                    ELSE call.parts[i] = IF Received(p, i)
                                         THEN CompleteList(call.src[i], call.league_ids[i])
                                         ELSE <<>>
             /\ (call.pc = "done" /\ ~call.raised) =>
                    /\ Len(call.parts) = Len(call.league_ids)
                    /\ call.matches = SortByKickoff(Concat(call.parts))
    /\ \A i \in 1..Len(procs[1].league_ids) :
          LET league_id == procs[1].league_ids[i]
              cache_key == MatchesKey(league_id, ConcurrentDate)
          IN /\ cache_key \in DOMAIN cache =>
                    \E q \in Threads :
                       /\ Received(q, i)
                       /\ cache[cache_key].val = CompleteList(procs[q].src[i], league_id)
             /\ (/\ \A q \in Threads : procs[q].pc = "done" /\ procs[q].src[i] \in AnswerFeeds
                 /\ procs[1].src[i] = procs[2].src[i])
                => cache_key \in DOMAIN cache <=>
                      /\ cache_key \in DOMAIN StoredAlone(procs[1].src[i], league_id)
                      /\ cache[cache_key] = StoredAlone(procs[1].src[i], league_id)[cache_key]

\* C25's case: both calls missed the cache, received different answers and
\* wrote one after the other; the entry is the list of the later writer
C25_Witness ==
    /\ \A q \in Threads : procs[q].pc = "done" /\ ~procs[q].raised
    /\ procs[1].league = "bundesliga"
    /\ procs[1].src = <<"clean">>
    /\ procs[2].src = <<"mixed">>
    /\ procs[2].matches # <<>>
    /\ cache[MatchesKey(78, ConcurrentDate)].val = procs[2].matches

---------------------------------------------------------------------------
(* Properties of the static tables, checked under SpecTables *)

\* C27: no sequence of operations, and no change a caller makes to a list or
\* dict it was handed, changes BROADCAST_MAPPINGS, LEAGUE_IDS or LEAGUE_NAMES,
\* and get_broadcast_channels keeps returning the configured lists.
C27_TablesNeverChange ==
    /\ \A league_id \in LeagueIdSet :
          /\ heap.objs[ChannelsObj(league_id)] = List(BROADCAST_MAPPINGS[league_id])
          /\ heap.objs[NamesObj(league_id)] = Dict(LEAGUE_NAMES[league_id])
    /\ heap.objs[IdsObj] = Dict(LEAGUE_IDS)
    /\ last.op \in {"get_broadcast_channels", "enrich"} =>
          /\ last.output = get_broadcast_channels(last.input)
          /\ last.ref > IdsObj

\* C27's case: a caller has appended a channel to the list it was given for
\* league 39, and a later call for league 39 returns the configured list
C27_Witness ==
    /\ last.op = "get_broadcast_channels"
    /\ last.input = 39
    /\ last.output = BROADCAST_MAPPINGS[39]
    /\ \E ref \in heap.held \ {last.ref} :
          heap.objs[ref] = List(Append(BROADCAST_MAPPINGS[39], "Pirate TV"))

---------------------------------------------------------------------------
(* Properties of the counted responses, checked under SpecResponses *)

\* C28: in every response of get_matches, get_live_matches and
\* get_upcoming_matches that is no error, computed or served from the cache,
\* count is the length of matches; and after FootballAPI.get_live_matches
\* has filtered by league id, results is the length of response.
C28_CountIsLength ==
    /\ (/\ last.op \in {"matchesForDate", "matchesForRange", "liveMatches",
                        "get_upcoming_matches"}
        /\ ~last.raised
        /\ last.response.kind = "ok")
       => last.response.count = Len(last.response.matches)
    /\ (/\ last.op = "FootballAPI.get_live_matches"
        /\ ~last.raised
        /\ last.league_id \notin {PyNone, 0}
        /\ last.response.kind = "ok")
       => /\ last.response.results = Len(last.response.response)
          /\ \A i \in 1..Len(last.response.response) :
                last.response.response[i].league = last.league_id

\* C28's case: the live fixtures of four leagues filtered down to the two
\* of league 39
C28_Witness ==
    /\ last.op = "FootballAPI.get_live_matches"
    /\ feed = "clean" /\ ~last.down
    /\ last.league_id = 39
    /\ last.response.results = 2
    /\ Len(FeedLive(feed, NowDay(last.at)).response) = 4

---------------------------------------------------------------------------
(* Properties of the watchlist endpoints, checked under SpecWatchlist *)

\* C29: after any sequence of watchlist requests by any users every item is
\* owned by the user who created it, and a request by one user never
\* returns, changes or deletes an item of another user.
C29_WatchlistOwnership ==
    [][/\ \A pk \in DOMAIN db'.items : db'.items[pk].user = db'.items[pk].creator
       /\ \A pk \in DOMAIN db.items :
             db.items[pk].user # last'.user
             => pk \in DOMAIN db'.items /\ db'.items[pk] = db.items[pk]
       /\ \A item \in last'.returned : item.user = last'.user]_vars

\* C29's case: alice asks for an item of bob by its primary key
C29_Witness ==
    /\ last.op \in {"retrieve", "update", "destroy"}
    /\ last.user = "alice"
    /\ last.pk \in DOMAIN db.items
    /\ db.items[last.pk].user = "bob"
    /\ last.status = 404

---------------------------------------------------------------------------
(* Properties of ChangePasswordView, checked under SpecPassword *)

\* C30: a change-password request whose old_password is not the user's
\* current password is answered 400 and leaves the stored password as it
\* is; the stored password changes only on a request whose old_password is
\* the current password, and it changes to the new_password of the request.
C30_WrongOldPasswordRejected ==
    [][(last'.op = "change_password" /\ last'.user \in Users)
       => /\ last'.old_password # db.password[last'.user]
             => last'.status = 400 /\ db'.password = db.password
          /\ db'.password[last'.user] # db.password[last'.user]
             => /\ last'.status = 200
                /\ last'.old_password = db.password[last'.user]
                /\ db'.password[last'.user] = last'.new_password]_vars

====
